---- MODULE Spec2Model ----
(***************************************************************************)
(* Model of the documentation-suggestion bot (Shipa-docs/shipa-app).       *)
(*                                                                         *)
(* Strings are sequences of tokens.  A token is a single character ("+",  *)
(* "-", " ", "\n", "x", ...) or an atomic word that the code searches for  *)
(* ("reason:", "Co-authored-by:", ...).  A patch line is a record          *)
(*   [text |-> token sequence, start |-> c, count |-> m]                   *)
(* where start and count are the numbers written in the token              *)
(* "-d,d +d,d @@" of a hunk header (0 on every other line).                *)
(*                                                                         *)
(* Spec runs createDocumentationSuggestions on one patch, SpecPos calls    *)
(* calculatePositionInFile directly, SpecBatch runs the batched revision,  *)
(* SpecEvent runs the event handlers of index.ts, which call               *)
(* createDocumentationSuggestions once per file, and SpecPair interleaves  *)
(* two invocations of the pull_request handlers.                           *)
(***************************************************************************)
EXTENDS Integers, Sequences, FiniteSets, TLC

VARIABLES
    lines,            \* patch.split("\n") of the file being processed
    sarcasmMode,      \* the sarcasmMode argument
    pc,               \* position of the running function
    docLines,         \* candidate lines: <<[line |-> i, codeLine |-> s], ...>>
    deletedLineNums,  \* positions of removed lines not yet replaced
    fileContent,      \* result of getFileContent (Null when unavailable)
    cur,              \* index in docLines of the candidate being processed
    text,             \* response of the text-generation backend
    comment,          \* arguments of the createReviewComment call in progress
    successCount,     \* successCount of createDocumentationSuggestions
    ret,              \* value returned by createDocumentationSuggestions
    modelCalls,       \* generateText calls made, in order
    reviewComments,   \* pulls.createReviewComment calls made, in order
    reviews,          \* pulls.createReview (fallback) calls made, in order
    lineIndex,        \* argument of a direct calculatePositionInFile call
    position,         \* result of that call
    event,            \* the delivered webhook event: [name, payload]
    hpc,              \* position of the event handler
    commits,          \* the commits the handler works on
    commitIdx,        \* index in commits of the commit being processed
    commitDetails,    \* result of getCommitDetails: [ok, files]
    fileIdx,          \* index in commitDetails.files of the file being processed
    handlerLog,       \* collaborator calls made by the handler, in order
    caught,           \* the catch clause of the handler that logged an exception
    parked,           \* the other handler invocation, waiting at its await
    contentFetches    \* getFileContent calls of createDocumentationSuggestions

vars == <<lines, sarcasmMode, pc, docLines, deletedLineNums, fileContent, cur,
          text, comment, successCount, ret, modelCalls, reviewComments, reviews,
          lineIndex, position, event, hpc, commits, commitIdx, commitDetails,
          fileIdx, handlerLog, caught, parked, contentFetches>>

\* the variables of the event handlers
handlerVars == <<event, hpc, commits, commitIdx, commitDetails, fileIdx,
                 handlerLog, caught, parked>>

(***************************************************************************)
(* Bounds of the model.                                                    *)
(***************************************************************************)
MaxStart == 2     \* largest new-file start line written in a hunk header
MaxCount == 1     \* largest new-file line count written in a hunk header
MaxLen   == 4     \* longest patch given to calculatePositionInFile directly
MaxPatch == 3     \* longest patch given to createDocumentationSuggestions
MaxResp  == 3     \* longest response (in tokens) to a batched prompt
MaxCommits == 2   \* most commits of a pull request or a push
MaxFiles == 2     \* most files of a commit

SARCASM_MODE == TRUE    \* default of the sarcasmMode parameter

\* a JavaScript value that is used as a condition: a boolean or a string
BoolValue(b)   == [type |-> "boolean", bool |-> b, str |-> <<>>]
StringValue(s) == [type |-> "string", bool |-> FALSE, str |-> s]

\* the condition: a string counts as true when it is not empty
ToBoolean(v) == IF v.type = "boolean" THEN v.bool ELSE v.str # <<>>
Null == <<"null">>      \* JavaScript null / undefined
NoComment == [body |-> <<>>, line |-> 0]
None == -1              \* "no value yet" for integer-valued variables

(***************************************************************************)
(* String helpers (token level).                                           *)
(***************************************************************************)
Max(a, b) == IF a >= b THEN a ELSE b

\* s.startsWith(p)
StartsWith(s, p) ==
    /\ Len(p) <= Len(s)
    /\ \A k \in 1..Len(p) : s[k] = p[k]

\* s.substring(n)
Substring(s, n) == IF n >= Len(s) THEN <<>> ELSE SubSeq(s, n + 1, Len(s))

IsSpace(t) == t \in {" ", "\n"}

\* s.trim()
RECURSIVE TrimStart(_)
TrimStart(s) ==
    IF s = <<>> THEN <<>>
    ELSE IF IsSpace(Head(s)) THEN TrimStart(Tail(s)) ELSE s

RECURSIVE TrimEnd(_)
TrimEnd(s) ==
    IF s = <<>> THEN <<>>
    ELSE IF IsSpace(s[Len(s)]) THEN TrimEnd(SubSeq(s, 1, Len(s) - 1)) ELSE s

Trim(s) == TrimEnd(TrimStart(s))

\* the characters of word w occur inside the atomic token t
TokenHas(t, w) ==
    \/ t = w
    \/ w = "suggestion" /\ t \in {"suggestion:", "Apply suggestion from"}
    \/ w = "bot" /\ t \in {"[bot]", "bot@"}

\* the same, ignoring case (the /.../i regular expressions)
TokenHasI(t, w) ==
    \/ TokenHas(t, w)
    \/ w = "Co-authored-by:" /\ t = "co-authored-by:"
    \/ w = "Apply suggestion from" /\ t = "apply suggestion from"

\* s.includes(w) for a word w
Includes(s, w) == \E k \in 1..Len(s) : TokenHas(s[k], w)

\* s.match(/w/i) for a word w
MatchI(s, w) == \E k \in 1..Len(s) : TokenHasI(s[k], w)

(***************************************************************************)
(* Patch lines.                                                            *)
(***************************************************************************)
Line(t) == [text |-> t, start |-> 0, count |-> 0]

\* "@@ -a,n +c,m @@"
HunkHeader(c, m) == [text |-> <<"@@ ", "-d,d +d,d @@">>, start |-> c, count |-> m]

\* "@@ -a +c @@": starts with "@@ " but has no ",n" / ",m" counts
ShortHeader == Line(<<"@@ ", "-d +d @@">>)

AddedLine(body)   == Line(<<"+">> \o body)
RemovedLine(body) == Line(<<"-">> \o body)
ContextLine(body) == Line(<<" ">> \o body)
PlusFileLine      == Line(<<"+", "+", "+", " ", "b/f">>)
MinusFileLine     == Line(<<"-", "-", "-", " ", "a/f">>)

\* line.match(/@@ -\d+,\d+ \+(\d+),\d+ @@/): <<captured group>>, or <<>> when
\* there is no match
HunkMatch(line) ==
    IF \E k \in 1..(Len(line.text) - 1) :
           line.text[k] = "@@ " /\ line.text[k + 1] = "-d,d +d,d @@"
    THEN <<line.start>>
    ELSE <<>>

\* lines[j]?.startsWith(p), with j counted from 0 as in the source
StartsWithAt(ls, j, p) == j < Len(ls) /\ StartsWith(ls[j + 1].text, p)

(***************************************************************************)
(* calculatePositionInFile (src/src/ai/suggestions.ts:325-359).            *)
(***************************************************************************)
\* HunkStep without the reset of linesAfterHunkStart at a hunk header
HunkStepNoReset(ls, j, st) ==
    IF StartsWithAt(ls, j, <<"@@ ">>)
    THEN IF Len(HunkMatch(ls[j + 1])) > 0
         THEN [currentHunkStart |-> HunkMatch(ls[j + 1])[1],
               linesAfterHunkStart |-> st.linesAfterHunkStart]
         ELSE st
    ELSE IF StartsWithAt(ls, j, <<"+">>)
    THEN [st EXCEPT !.linesAfterHunkStart = @ + 1]
    ELSE IF ~StartsWithAt(ls, j, <<"-">>)
    THEN [st EXCEPT !.linesAfterHunkStart = @ + 1]
    ELSE st

\* HunkStep not counting added lines
HunkStepSkipAdded(ls, j, st) ==
    IF StartsWithAt(ls, j, <<"@@ ">>)
    THEN IF Len(HunkMatch(ls[j + 1])) > 0
         THEN [currentHunkStart |-> HunkMatch(ls[j + 1])[1],
               linesAfterHunkStart |-> 0]
         ELSE st
    ELSE IF StartsWithAt(ls, j, <<"+">>)
    THEN st
    ELSE IF ~StartsWithAt(ls, j, <<"-">>)
    THEN [st EXCEPT !.linesAfterHunkStart = @ + 1]
    ELSE st

\* HunkStep counting removed lines like context lines
HunkStepCountRemoved(ls, j, st) ==
    IF StartsWithAt(ls, j, <<"@@ ">>)
    THEN IF Len(HunkMatch(ls[j + 1])) > 0
         THEN [currentHunkStart |-> HunkMatch(ls[j + 1])[1],
               linesAfterHunkStart |-> 0]
         ELSE st
    ELSE [st EXCEPT !.linesAfterHunkStart = @ + 1]

\* lines 336-347: the state of the counting loop after line j has been
\* looked at; st = [currentHunkStart, linesAfterHunkStart]
HunkStep(ls, j, st) ==
    IF StartsWithAt(ls, j, <<"@@ ">>)
    THEN IF Len(HunkMatch(ls[j + 1])) > 0
         THEN [currentHunkStart |-> HunkMatch(ls[j + 1])[1],
               linesAfterHunkStart |-> 0]
         ELSE st
    ELSE IF StartsWithAt(ls, j, <<"+">>)
    THEN [st EXCEPT !.linesAfterHunkStart = @ + 1]
    ELSE IF ~StartsWithAt(ls, j, <<"-">>)
    THEN [st EXCEPT !.linesAfterHunkStart = @ + 1]
    ELSE st

RECURSIVE HunkLoop(_, _, _, _)
HunkLoop(ls, idx, j, st) ==
    IF j < idx THEN HunkLoop(ls, idx, j + 1, HunkStep(ls, j, st)) ELSE st

\* calculatePositionInFile without Math.max(position, 1)
calculatePositionInFileNoClamp(ls, idx) ==
    LET st == HunkLoop(ls, idx, 0,
                       [currentHunkStart |-> 0, linesAfterHunkStart |-> 0])
    IN  st.currentHunkStart + st.linesAfterHunkStart

calculatePositionInFile(ls, idx) ==
    LET st == HunkLoop(ls, idx, 0,
                       [currentHunkStart |-> 0, linesAfterHunkStart |-> 0])
    IN  Max(st.currentHunkStart + st.linesAfterHunkStart, 1)

(***************************************************************************)
(* Sets the inputs are drawn from.                                         *)
(***************************************************************************)
SeqsUpTo(S, n) == UNION {[1..k -> S] : k \in 1..n}

\* lines of a patch handed to calculatePositionInFile
PosLines ==
    {HunkHeader(c, MaxCount) : c \in 0..MaxStart} \cup
    {ShortHeader, AddedLine(<<"x">>), RemovedLine(<<"x">>),
     ContextLine(<<"x">>), PlusFileLine, MinusFileLine}

(***************************************************************************)
(* Direct calls of calculatePositionInFile.                                *)
(***************************************************************************)
\* no event is being handled
NoEvent == [name |-> "none",
            payload |-> [repository |-> "ok", pull_request |-> TRUE,
                         hasCommits |-> FALSE, commits |-> <<>>]]
NoDetails == [ok |-> FALSE, files |-> <<>>]

\* the locals of a handler invocation that has not read its event yet
ReceivedLocals(e) ==
    [lines |-> <<>>, sarcasmMode |-> BoolValue(SARCASM_MODE),
     pc |-> "idle",
     docLines |-> <<>>, deletedLineNums |-> {}, fileContent |-> Null,
     cur |-> 0, text |-> <<>>, comment |-> NoComment, successCount |-> 0,
     ret |-> None, modelCalls |-> <<>>, reviewComments |-> <<>>,
     reviews |-> <<>>, lineIndex |-> 0, position |-> None,
     event |-> e, hpc |-> "received", commits |-> <<>>, commitIdx |-> 0,
     commitDetails |-> NoDetails, fileIdx |-> 0, handlerLog |-> <<>>,
     caught |-> "none", contentFetches |-> 0]

\* one handler invocation runs; no other one is waiting
NoInvocation == [paired |-> FALSE, locals |-> ReceivedLocals(NoEvent)]

NoHandler ==
    /\ event = NoEvent
    /\ hpc = "none"
    /\ commits = <<>>
    /\ commitIdx = 0
    /\ commitDetails = NoDetails
    /\ fileIdx = 0
    /\ handlerLog = <<>>
    /\ caught = "none"
    /\ parked = NoInvocation

Idle ==
    /\ sarcasmMode = BoolValue(SARCASM_MODE)
    /\ docLines = <<>>
    /\ deletedLineNums = {}
    /\ fileContent = Null
    /\ cur = 0
    /\ text = <<>>
    /\ comment = NoComment
    /\ successCount = 0
    /\ ret = None
    /\ modelCalls = <<>>
    /\ reviewComments = <<>>
    /\ reviews = <<>>
    /\ contentFetches = 0

PosInit ==
    /\ lines \in SeqsUpTo(PosLines, MaxLen)
    /\ lineIndex \in 0..(Len(lines) - 1)
    /\ position = None
    /\ pc = "pos_call"
    /\ Idle
    /\ NoHandler

CalcPosition ==
    /\ pc = "pos_call"
    /\ position' = calculatePositionInFile(lines, lineIndex)
    /\ pc' = "pos_done"
    /\ UNCHANGED <<handlerVars, contentFetches,
                   lines, sarcasmMode, docLines, deletedLineNums, fileContent,
                   cur, text, comment, successCount, ret, modelCalls,
                   reviewComments, reviews, lineIndex>>

(***************************************************************************)
(* The counting loop of createSuggestionWithEmoji (earlier revision,       *)
(* src/src/index.ts:381-391).                                              *)
(***************************************************************************)
\* InlineStep setting the position to the new-file start itself
InlineStepFromStart(ls, j, pos) ==
    IF StartsWithAt(ls, j, <<"@@ ">>)
    THEN IF Len(HunkMatch(ls[j + 1])) > 0
         THEN HunkMatch(ls[j + 1])[1]
         ELSE pos
    ELSE IF ~StartsWithAt(ls, j, <<"-">>)
    THEN pos + 1
    ELSE pos

\* lines 383-390: the position after line j has been looked at
InlineStep(ls, j, pos) ==
    IF StartsWithAt(ls, j, <<"@@ ">>)
    THEN IF Len(HunkMatch(ls[j + 1])) > 0
         THEN HunkMatch(ls[j + 1])[1] - 1
         ELSE pos
    ELSE IF ~StartsWithAt(ls, j, <<"-">>)
    THEN pos + 1
    ELSE pos

\* lines 381-391: for (let j = 0; j <= suggestion.line; j++)
RECURSIVE InlineLoop(_, _, _, _)
InlineLoop(ls, target, j, pos) ==
    IF j <= target THEN InlineLoop(ls, target, j + 1, InlineStep(ls, j, pos))
    ELSE pos

InlinePosition(ls, target) == InlineLoop(ls, target, 0, 1)

\* lines 354-391: the same added line is a suggestion of the earlier
\* revision, which computes the position argument of its comment
InlinePositionLoop ==
    /\ pc = "pos_done"
    /\ StartsWith(lines[lineIndex + 1].text, <<"+">>)
    /\ ~StartsWith(lines[lineIndex + 1].text, <<"+", "+", "+">>)
    /\ comment' = [comment EXCEPT !.line = InlinePosition(lines, lineIndex)]
    /\ pc' = "pos_inline"
    /\ UNCHANGED <<handlerVars, contentFetches,
                   lines, sarcasmMode, docLines, deletedLineNums, fileContent,
                   cur, text, successCount, ret, modelCalls,
                   reviewComments, reviews, lineIndex, position>>

PosNext == CalcPosition \/ InlinePositionLoop

SpecPos == PosInit /\ [][PosNext]_vars

(***************************************************************************)
(* Reading a patch the way the specification describes it (indices from 0).*)
(***************************************************************************)
IsHunkHeaderLine(l) == StartsWith(l.text, <<"@@ ">>) /\ Len(HunkMatch(l)) > 0
IsAtLine(l)         == StartsWith(l.text, <<"@@ ">>)
IsRemovedLine(l)    == StartsWith(l.text, <<"-">>)

HeaderIndices(ls) == {j \in 0..(Len(ls) - 1) : IsHunkHeaderLine(ls[j + 1])}
AtIndices(ls)     == {j \in 0..(Len(ls) - 1) : IsAtLine(ls[j + 1])}

\* index of the most recent hunk header before line i (None when there is none)
LastHeaderBefore(ls, i) ==
    LET hs == {j \in HeaderIndices(ls) : j < i}
    IN  IF hs = {} THEN None ELSE CHOOSE h \in hs : \A g \in hs : g <= h

\* lines from..to that are neither removed lines nor "@@ " lines
Counted(ls, from, to) ==
    Cardinality({j \in from..to :
                    ~IsRemovedLine(ls[j + 1]) /\ ~IsAtLine(ls[j + 1])})

\* the patch has exactly one "@@ " line, a hunk header, before line i
SingleHeaderBefore(ls, i) ==
    /\ Cardinality(AtIndices(ls)) = 1
    /\ HeaderIndices(ls) = AtIndices(ls)
    /\ LastHeaderBefore(ls, i) # None

(***************************************************************************)
(* createDocumentationSuggestions, per-line revision                       *)
(* (src/src/ai/suggestions.ts).                                            *)
(***************************************************************************)
\* CollectStep without the branch for a line that replaces a removed line
CollectStepDropReplaced(ls, i, st) ==
    LET line     == ls[i + 1].text
        pos      == calculatePositionInFile(ls, i)
        deleted  == IF StartsWith(line, <<"-">>) /\ ~StartsWith(line, <<"-", "-", "-">>)
                    THEN st.deleted \cup {pos}
                    ELSE st.deleted
        codeLine == Substring(line, 1)
    IN  IF StartsWith(line, <<"+">>) /\ ~StartsWith(line, <<"+", "+", "+">>)
        THEN IF Trim(codeLine) # <<>> /\ pos \notin deleted
             THEN [docs    |-> Append(st.docs, [line |-> i, codeLine |-> codeLine]),
                   deleted |-> deleted]
             ELSE [docs |-> st.docs, deleted |-> deleted \ {pos}]
        ELSE [docs |-> st.docs, deleted |-> deleted]

\* CollectStep taking blank added lines too
CollectStepKeepBlank(ls, i, st) ==
    LET line     == ls[i + 1].text
        pos      == calculatePositionInFile(ls, i)
        deleted  == IF StartsWith(line, <<"-">>) /\ ~StartsWith(line, <<"-", "-", "-">>)
                    THEN st.deleted \cup {pos}
                    ELSE st.deleted
        codeLine == Substring(line, 1)
    IN  IF StartsWith(line, <<"+">>) /\ ~StartsWith(line, <<"+", "+", "+">>)
        THEN [docs    |-> Append(st.docs, [line |-> i, codeLine |-> codeLine]),
              deleted |-> deleted \ {pos}]
        ELSE [docs |-> st.docs, deleted |-> deleted]

\* lines 93-125: one iteration of the loop that collects the candidate lines
\* (line i, counted from 0); st = [docs |-> docLines, deleted |-> deletedLineNums]
CollectStep(ls, i, st) ==
    LET line     == ls[i + 1].text
        pos      == calculatePositionInFile(ls, i)
        deleted  == IF StartsWith(line, <<"-">>) /\ ~StartsWith(line, <<"-", "-", "-">>)
                    THEN st.deleted \cup {pos}
                    ELSE st.deleted
        codeLine == Substring(line, 1)
    IN  IF StartsWith(line, <<"+">>) /\ ~StartsWith(line, <<"+", "+", "+">>)
        THEN IF Trim(codeLine) # <<>> /\ pos \notin deleted
             THEN [docs    |-> Append(st.docs, [line |-> i, codeLine |-> codeLine]),
                   deleted |-> deleted]
             ELSE IF Trim(codeLine) # <<>> /\ pos \in deleted
             THEN [docs    |-> Append(st.docs, [line |-> i, codeLine |-> codeLine]),
                   deleted |-> deleted \ {pos}]
             ELSE [docs |-> st.docs, deleted |-> deleted]
        ELSE [docs |-> st.docs, deleted |-> deleted]

RECURSIVE CollectLoop(_, _, _)
CollectLoop(ls, i, st) ==
    IF i < Len(ls) THEN CollectLoop(ls, i + 1, CollectStep(ls, i, st)) ELSE st

CollectDocLines(ls) == CollectLoop(ls, 0, [docs |-> <<>>, deleted |-> {}])

\* the three early returns of processIndividualLine
IsEmptyLine(codeLine) == Trim(codeLine) = <<>>

\* HasSuggestionMetadata without the 'Suggested' test
HasSuggestionMetadataNoSuggested(codeLine) ==
    \/ Includes(codeLine, "Co-authored-by:")
    \/ Includes(codeLine, "suggestion")
    \/ Includes(codeLine, "bot@")

HasSuggestionMetadata(codeLine) ==
    \/ Includes(codeLine, "Co-authored-by:")
    \/ Includes(codeLine, "suggestion")
    \/ Includes(codeLine, "Suggested")
    \/ Includes(codeLine, "bot@")

IsAcceptanceMetadata(codeLine) ==
    \/ MatchI(codeLine, "Apply suggestion from")
    \/ MatchI(codeLine, "Co-authored-by:")

SkipsLine(codeLine) ==
    \/ IsEmptyLine(codeLine)
    \/ HasSuggestionMetadata(codeLine)
    \/ IsAcceptanceMetadata(codeLine)

\* s.replace(w, r): the first occurrence of the word w is replaced
RECURSIVE ReplaceFirst(_, _, _)
ReplaceFirst(s, w, r) ==
    IF s = <<>> THEN <<>>
    ELSE IF Head(s) = w THEN r \o Tail(s)
    ELSE <<Head(s)>> \o ReplaceFirst(Tail(s), w, r)

PROMPT_BASE == <<"<internal_reminder>", "FULL_DOCUMENT_CONTEXT",
                 "Here is the specific line you should improve:", "TARGET_LINE">>

\* a JavaScript string used as a condition
Truthy(str) == str # Null /\ str # <<>>

\* the arguments of the generateText call
ModelPrompt(codeLine, content, sarcasm) ==
    LET prompt == IF Truthy(content)
                  THEN ReplaceFirst(
                           ReplaceFirst(PROMPT_BASE, "FULL_DOCUMENT_CONTEXT", content),
                           "TARGET_LINE", codeLine)
                  ELSE codeLine
    IN  [system |-> IF Truthy(content) THEN <<>>
                    ELSE PROMPT_BASE \o
                         (IF ToBoolean(sarcasm) THEN <<"\n", "ENABLE SARCASM MODE">> ELSE <<>>),
         prompt |-> IF ToBoolean(sarcasm)
                    THEN prompt \o <<"\n", "\n", "IMPORTANT: USE SARCASM MODE">>
                    ELSE prompt]

\* text.includes("reason:") && text.includes("suggestion:")
HasResponseFormat(t) == Includes(t, "reason:") /\ Includes(t, "suggestion:")

\* positions k where "\nsuggestion:" starts in s
SeparatorIndices(s) ==
    {k \in 1..(Len(s) - 1) : s[k] = "\n" /\ s[k + 1] = "suggestion:"}

\* "<fence>" stands for the three backquotes that open and close a block
formatSuggestionComment(content) ==
    IF Cardinality(SeparatorIndices(content)) # 1
    THEN content
    ELSE LET k          == CHOOSE i \in SeparatorIndices(content) : TRUE
             reason     == Trim(ReplaceFirst(SubSeq(content, 1, k - 1), "reason:", <<>>))
             suggestion == Trim(SubSeq(content, k + 2, Len(content)))
         IN  <<"**Reason for improvement:** ">> \o reason \o
             <<"\n", "<fence>suggestion", "\n">> \o suggestion \o <<"\n", "<fence>">>

formatLineSuggestion(original, improved) ==
    <<"<fence>suggestion", "\n">> \o improved \o <<"\n", "<fence>">>

\* ResponseToComment sending the offset of the line inside its hunk
ResponseToCommentHunkOffset(ls, doc, t) ==
    LET offset == doc.line - Max(LastHeaderBefore(ls, doc.line), 0)
    IN  IF t = <<>> THEN NoComment
        ELSE IF HasResponseFormat(t)
        THEN [body |-> formatSuggestionComment(t), line |-> offset]
        ELSE IF Trim(t) = Trim(doc.codeLine) THEN NoComment
        ELSE [body |-> formatLineSuggestion(doc.codeLine, t), line |-> offset]

\* ResponseToComment rejecting a response without both markers
ResponseToCommentMarkersOnly(ls, doc, t) ==
    IF t = <<>> THEN NoComment
    ELSE IF HasResponseFormat(t)
    THEN [body |-> formatSuggestionComment(t),
          line |-> calculatePositionInFile(ls, doc.line)]
    ELSE NoComment

\* lines 260-312: what processIndividualLine does with the response t for the
\* candidate doc, up to the createReviewComment call: the call's arguments, or
\* NoComment when it returns false
ResponseToComment(ls, doc, t) ==
    IF t = <<>> THEN NoComment
    ELSE IF HasResponseFormat(t)
    THEN [body |-> formatSuggestionComment(t),
          line |-> calculatePositionInFile(ls, doc.line)]
    ELSE IF Trim(t) = Trim(doc.codeLine) THEN NoComment
    ELSE [body |-> formatLineSuggestion(doc.codeLine, t),
          line |-> calculatePositionInFile(ls, doc.line)]

(***************************************************************************)
(* Inputs of the pipeline.                                                 *)
(***************************************************************************)
\* lines of a patch handed to createDocumentationSuggestions
PatchLines ==
    {HunkHeader(c, m) : c \in {0, 1, MaxStart}, m \in {MaxCount}} \cup
    {RemovedLine(<<"x">>), ContextLine(<<"x">>),
     AddedLine(<<"x">>), AddedLine(<<" ">>),
     AddedLine(<<"Co-authored-by:", "x">>), AddedLine(<<"x", "Suggested">>),
     AddedLine(<<"Apply suggestion from", "x">>), AddedLine(<<"x", "bot@">>),
     PlusFileLine, MinusFileLine}

\* the patch "@@ -1,2 +1,3 @@\n context\n+// New comment\n+\n context"
ScenarioPatch ==
    <<HunkHeader(1, 3), ContextLine(<<"context">>),
      AddedLine(<<"// New comment">>), AddedLine(<<>>),
      ContextLine(<<"context">>)>>

\* what getFileContent may return
FileContents == {Null, <<"doc">>}

\* what the text-generation backend may answer for the line codeLine
Responses(codeLine) ==
    {<<" ">> \o codeLine,
     <<"y">>,
     <<"reason:", "r", "\n", "suggestion:", " ">> \o codeLine,
     <<"suggestion:", "y", " ", "reason:", "r">>}

(***************************************************************************)
(* The steps of createDocumentationSuggestions; every step runs up to the  *)
(* next await of a collaborator call.                                      *)
(***************************************************************************)
Init ==
    /\ lines \in SeqsUpTo(PatchLines, MaxPatch) \cup {ScenarioPatch}
    /\ pc = "start"
    /\ lineIndex = 0
    /\ position = None
    /\ Idle
    /\ NoHandler

\* processIndividualLine returned success for candidate cur: the loop over
\* docLines goes on, or the function returns successCount
LineDone(success) ==
    LET n == IF success THEN successCount + 1 ELSE successCount
    IN  /\ successCount' = n
        /\ cur' = cur + 1
        /\ text' = <<>>
        /\ comment' = NoComment
        /\ IF cur < Len(docLines)
           THEN pc' = "line" /\ ret' = ret
           ELSE pc' = "done" /\ ret' = n

\* lines 83-132: collect the candidate lines; return 0 when there is none
CollectCandidates ==
    /\ pc = "start"
    /\ LET st == CollectDocLines(lines)
       IN  /\ docLines' = st.docs
           /\ deletedLineNums' = st.deleted
           /\ IF st.docs = <<>>
              THEN pc' = "done" /\ ret' = 0
              ELSE pc' = "get_content" /\ ret' = ret
    /\ UNCHANGED <<handlerVars, contentFetches,
                   lines, sarcasmMode, fileContent, cur, text, comment,
                   successCount, modelCalls, reviewComments, reviews,
                   lineIndex, position>>

\* GetFileContent fetching the content again before the loop starts
GetFileContentAgain ==
    /\ pc = "get_content"
    /\ \E content \in FileContents : fileContent' = content
    /\ contentFetches' = contentFetches + 1
    /\ successCount' = 0
    /\ IF contentFetches = 0
       THEN cur' = cur /\ pc' = pc
       ELSE cur' = 1 /\ pc' = "line"
    /\ UNCHANGED <<handlerVars,
                   lines, sarcasmMode, docLines, deletedLineNums, text, comment,
                   ret, modelCalls, reviewComments, reviews, lineIndex, position>>

\* lines 137-162: getFileContent resolves (null on any failure)
GetFileContent ==
    /\ pc = "get_content"
    /\ \E content \in FileContents : fileContent' = content
    /\ contentFetches' = contentFetches + 1
    /\ successCount' = 0
    /\ cur' = 1
    /\ pc' = "line"
    /\ UNCHANGED <<handlerVars,
                   lines, sarcasmMode, docLines, deletedLineNums, text, comment,
                   ret, modelCalls, reviewComments, reviews, lineIndex, position>>

\* lines 214-234: the candidate is skipped
SkipLine ==
    /\ pc = "line"
    /\ SkipsLine(docLines[cur].codeLine)
    /\ LineDone(FALSE)
    /\ UNCHANGED <<handlerVars, contentFetches,
                   lines, sarcasmMode, docLines, deletedLineNums, fileContent,
                   modelCalls, reviewComments, reviews, lineIndex, position>>

\* the part of processIndividualLine after generateText has settled with t
AfterGenerateText(t) ==
    LET c == ResponseToComment(lines, docLines[cur], t)
    IN  IF c = NoComment
        THEN LineDone(FALSE)
        ELSE /\ text' = t
             /\ comment' = c
             /\ pc' = "comment"
             /\ UNCHANGED <<cur, successCount, ret>>

\* lines 236-315: generateText answers
GenerateText ==
    /\ pc = "line"
    /\ ~SkipsLine(docLines[cur].codeLine)
    /\ modelCalls' = Append(modelCalls,
           ModelPrompt(docLines[cur].codeLine, fileContent, sarcasmMode)
               @@ [doc |-> cur, ok |-> TRUE])
    /\ \E t \in Responses(docLines[cur].codeLine) : AfterGenerateText(t)
    /\ UNCHANGED <<handlerVars, contentFetches,
                   lines, sarcasmMode, docLines, deletedLineNums, fileContent,
                   reviewComments, reviews, lineIndex, position>>

\* GenerateTextFails letting the exception end createDocumentationSuggestions
GenerateTextThrows ==
    /\ pc = "line"
    /\ ~SkipsLine(docLines[cur].codeLine)
    /\ modelCalls' = Append(modelCalls,
           ModelPrompt(docLines[cur].codeLine, fileContent, sarcasmMode)
               @@ [doc |-> cur, ok |-> FALSE])
    /\ pc' = "done"
    /\ ret' = 0
    /\ UNCHANGED <<handlerVars, contentFetches,
                   lines, sarcasmMode, docLines, deletedLineNums, fileContent,
                   cur, text, comment, successCount, reviewComments, reviews,
                   lineIndex, position>>

\* GenerateTextFails leaving the candidate to be tried again
GenerateTextRetried ==
    /\ pc = "line"
    /\ ~SkipsLine(docLines[cur].codeLine)
    /\ modelCalls' = Append(modelCalls,
           ModelPrompt(docLines[cur].codeLine, fileContent, sarcasmMode)
               @@ [doc |-> cur, ok |-> FALSE])
    /\ Len(modelCalls) < 2 * Len(docLines)
    /\ UNCHANGED <<handlerVars, contentFetches,
                   lines, sarcasmMode, pc, docLines, deletedLineNums, fileContent,
                   cur, text, comment, successCount, ret, reviewComments, reviews,
                   lineIndex, position>>

\* lines 255-263: generateText fails; the catch turns it into text ""
GenerateTextFails ==
    /\ pc = "line"
    /\ ~SkipsLine(docLines[cur].codeLine)
    /\ modelCalls' = Append(modelCalls,
           ModelPrompt(docLines[cur].codeLine, fileContent, sarcasmMode)
               @@ [doc |-> cur, ok |-> FALSE])
    /\ AfterGenerateText(<<>>)
    /\ UNCHANGED <<handlerVars, contentFetches,
                   lines, sarcasmMode, docLines, deletedLineNums, fileContent,
                   reviewComments, reviews, lineIndex, position>>

\* the record of one pulls.createReviewComment call
ReviewCommentCall(ok) ==
    [body |-> comment.body, line |-> comment.line, side |-> "RIGHT",
     doc |-> cur, ok |-> ok]

\* github.ts 99-118: the positioned comment is accepted
CommentAccepted ==
    /\ pc = "comment"
    /\ reviewComments' = Append(reviewComments, ReviewCommentCall(TRUE))
    /\ LineDone(TRUE)
    /\ UNCHANGED <<handlerVars, contentFetches,
                   lines, sarcasmMode, docLines, deletedLineNums, fileContent,
                   modelCalls, reviews, lineIndex, position>>

\* github.ts 119-124: the positioned comment is rejected
CommentRejected ==
    /\ pc = "comment"
    /\ reviewComments' = Append(reviewComments, ReviewCommentCall(FALSE))
    /\ pc' = "review"
    /\ UNCHANGED <<handlerVars, contentFetches,
                   lines, sarcasmMode, docLines, deletedLineNums, fileContent,
                   cur, text, comment, successCount, ret, modelCalls, reviews,
                   lineIndex, position>>

\* the record of one pulls.createReview call
ReviewCall(ok) ==
    [body |-> <<"Documentation improvement for ", "path", ":", "\n", "\n">>
                  \o comment.body,
     event |-> "COMMENT", doc |-> cur, ok |-> ok]

\* ReviewAccepted reporting a failure after the accepted review
ReviewAcceptedReturnsFalse ==
    /\ pc = "review"
    /\ reviews' = Append(reviews, ReviewCall(TRUE))
    /\ LineDone(FALSE)
    /\ UNCHANGED <<handlerVars, contentFetches,
                   lines, sarcasmMode, docLines, deletedLineNums, fileContent,
                   modelCalls, reviewComments, lineIndex, position>>

\* github.ts 124-134: the whole-pull-request review is accepted
ReviewAccepted ==
    /\ pc = "review"
    /\ reviews' = Append(reviews, ReviewCall(TRUE))
    /\ LineDone(TRUE)
    /\ UNCHANGED <<handlerVars, contentFetches,
                   lines, sarcasmMode, docLines, deletedLineNums, fileContent,
                   modelCalls, reviewComments, lineIndex, position>>

\* ReviewRejected letting the exception end createDocumentationSuggestions
ReviewRejectedThrows ==
    /\ pc = "review"
    /\ reviews' = Append(reviews, ReviewCall(FALSE))
    /\ pc' = "done"
    /\ ret' = 0
    /\ UNCHANGED <<handlerVars, contentFetches,
                   lines, sarcasmMode, docLines, deletedLineNums, fileContent,
                   cur, text, comment, successCount, modelCalls, reviewComments,
                   lineIndex, position>>

\* ReviewRejected reporting the failure to the caller
ReviewRejectedReturnsFalse ==
    /\ pc = "review"
    /\ reviews' = Append(reviews, ReviewCall(FALSE))
    /\ LineDone(FALSE)
    /\ UNCHANGED <<handlerVars, contentFetches,
                   lines, sarcasmMode, docLines, deletedLineNums, fileContent,
                   modelCalls, reviewComments, lineIndex, position>>

\* github.ts 136-140: the review fails too; createReviewComment returns true
ReviewRejected ==
    /\ pc = "review"
    /\ reviews' = Append(reviews, ReviewCall(FALSE))
    /\ LineDone(TRUE)
    /\ UNCHANGED <<handlerVars, contentFetches,
                   lines, sarcasmMode, docLines, deletedLineNums, fileContent,
                   modelCalls, reviewComments, lineIndex, position>>

Next ==
    \/ CollectCandidates
    \/ GetFileContent
    \/ SkipLine
    \/ GenerateText
    \/ GenerateTextFails
    \/ CommentAccepted
    \/ CommentRejected
    \/ ReviewAccepted
    \/ ReviewRejected

Spec == Init /\ [][Next]_vars

(***************************************************************************)
(* The event handlers (src/src/index.ts).  The pull_request handlers call  *)
(* createDocumentationSuggestions, whose steps are the actions above.      *)
(***************************************************************************)
\* the variables of createDocumentationSuggestions
pipelineVars == <<lines, sarcasmMode, pc, docLines, deletedLineNums, fileContent,
                  contentFetches,
                  cur, text, comment, successCount, ret, modelCalls,
                  reviewComments, reviews, lineIndex, position>>

\* file.patch: absent (undefined), or the lines of the patch ("" has none)
Patch(ls) == [defined |-> TRUE, lines |-> ls]
NoPatch   == [defined |-> FALSE, lines |-> <<>>]

\* a file of commitDetails.files
File(status, patch) == [status |-> status, patch |-> patch]

\* HasPatch taking every file
HasPatchAlways(file) == TRUE

\* if (file.patch)
HasPatch(file) == file.patch.defined /\ file.patch.lines # <<>>

\* an element of the commit list
Commit(sha, message, email) == [sha |-> sha, message |-> message, email |-> email]

\* SkipsCommit looking for the bot only after the co-author marker
SkipsCommitInTrailer(message) ==
    \E k \in 1..Len(message) :
       /\ TokenHas(message[k], "Co-authored-by:")
       /\ \E j \in (k + 1)..Len(message) :
             TokenHas(message[j], "bot") \/ TokenHas(message[j], "Bot")

\* SkipsCommit looking for the lower-case word only
SkipsCommitLowerCaseOnly(message) ==
    Includes(message, "Co-authored-by:") /\ Includes(message, "bot")

\* index.ts 55-57 and 165-167: the commit comes from an accepted suggestion
SkipsCommit(message) ==
    /\ Includes(message, "Co-authored-by:")
    /\ (Includes(message, "bot") \/ Includes(message, "Bot"))

\* one collaborator call of a handler
Call(op, sha, file, ok) ==
    [op |-> op, sha |-> sha, file |-> file, ok |-> ok, ret |-> None,
     modelFailed |-> FALSE, publishFailed |-> FALSE]

\* the createDocumentationSuggestions call that has just returned
SuggestionsCall(sha, file) ==
    [op |-> "createDocumentationSuggestions", sha |-> sha, file |-> file,
     ok |-> TRUE, ret |-> ret,
     modelFailed |-> \E n \in 1..Len(modelCalls) : ~modelCalls[n].ok,
     publishFailed |-> \E n \in 1..Len(reviews) : ~reviews[n].ok]

(***************************************************************************)
(* Inputs of the handlers.                                                 *)
(***************************************************************************)
PullRequestEvents == {"pull_request.opened", "pull_request.synchronize"}

PlainMessage == <<"fix">>
BotCoAuthoredMessage ==
    <<"fix", "\n", "\n", "Co-authored-by:", " ", "x", "[bot]">>

CommitMessages ==
    {PlainMessage, BotCoAuthoredMessage,
     <<"fix", "\n", "\n", "Co-authored-by:", " ", "Doc", "Bot">>,
     <<"fix", "\n", "\n", "Co-authored-by:", " ", "x">>,
     <<"fix", " ", "[bot]", "\n", "\n", "Co-authored-by:", " ", "x">>,
     <<"fix", " ", "[bot]">>}

\* the commits a list may end with
LastCommits(n) ==
    {Commit(n, m, <<>>) : m \in CommitMessages} \cup
    {Commit(n, PlainMessage, <<"a@x">>)}

\* the commits of the pull request of each of two interleaved invocations:
\* they differ in the commit id and in the author e-mail of the last commit
PairCommits(name) ==
    IF name = "pull_request.opened"
    THEN <<Commit(1, PlainMessage, <<"a@x">>)>>
    ELSE <<Commit(1, PlainMessage, <<>>), Commit(2, PlainMessage, <<>>)>>

\* what pulls.listCommits may return: the last commit is any commit, the
\* earlier ones are all plain or all from accepted suggestions; each of two
\* interleaved invocations is answered for its own pull request
CommitLists ==
    IF parked.paired
    THEN {<<>>, PairCommits(event.name)}
    ELSE {<<>>} \cup
         UNION {{[k \in 1..n |-> IF k < n THEN Commit(k, early, <<>>) ELSE last] :
                    early \in {PlainMessage, BotCoAuthoredMessage},
                    last \in LastCommits(n)} : n \in 1..MaxCommits}

\* payload.commits of a push
PushCommitLists ==
    {[k \in 1..n |-> Commit(k, PlainMessage, <<>>)] : n \in 0..MaxCommits}

\* the files a commit may have
EventFiles ==
    {File("modified", Patch(<<HunkHeader(1, MaxCount), AddedLine(<<"x">>),
                              AddedLine(<<"x", " ", "Suggested">>)>>)),
     File("modified", NoPatch),
     File("modified", Patch(<<>>)),
     File("removed", Patch(<<RemovedLine(<<"x">>)>>))}

\* the file of the last commit of each of two interleaved invocations: the
\* hunks start at different lines
PairFile(name) ==
    File("modified",
         Patch(<<HunkHeader(IF name = "pull_request.opened" THEN 1 ELSE 2, 1),
                 AddedLine(<<"x">>), AddedLine(<<"x", " ", "Suggested">>)>>))

\* what repos.getCommit may return; each of two interleaved invocations is
\* answered for its own commit
CommitDetailsResults ==
    IF parked.paired
    THEN {NoDetails, [ok |-> TRUE, files |-> <<PairFile(event.name)>>]}
    ELSE {NoDetails} \cup
         {[ok |-> TRUE, files |-> fs] : fs \in SeqsUpTo(EventFiles, MaxFiles)}

\* the payloads: repository is "ok", "anonymous" (an owner without login and
\* name) or "missing"; pull_request and commits may be missing
Payload(repository, pullRequest, hasCommits, cs) ==
    [repository |-> repository, pull_request |-> pullRequest,
     hasCommits |-> hasCommits, commits |-> cs]

Events ==
    {[name |-> n, payload |-> Payload(r, p, FALSE, <<>>)] :
        n \in PullRequestEvents,
        r \in {"ok", "missing"}, p \in BOOLEAN} \cup
    {[name |-> "push", payload |-> Payload(r, FALSE, TRUE, cs)] :
        r \in {"ok", "anonymous", "missing"}, cs \in PushCommitLists} \cup
    {[name |-> "push", payload |-> Payload("ok", FALSE, FALSE, <<>>)]}

EventInit ==
    /\ event \in Events
    /\ hpc = "received"
    /\ commits = <<>>
    /\ commitIdx = 0
    /\ commitDetails = NoDetails
    /\ fileIdx = 0
    /\ handlerLog = <<>>
    /\ caught = "none"
    /\ parked = NoInvocation
    /\ lines = <<>>
    /\ pc = "idle"
    /\ lineIndex = 0
    /\ position = None
    /\ Idle

(***************************************************************************)
(* pull_request.opened (lines 18-125) and pull_request.synchronize (lines  *)
(* 128-235); every action runs up to the next await.                       *)
(***************************************************************************)
\* the locals of a createDocumentationSuggestions call, before its first step
FreshLocals ==
    /\ docLines' = <<>>
    /\ deletedLineNums' = {}
    /\ fileContent' = Null
    /\ cur' = 0
    /\ text' = <<>>
    /\ comment' = NoComment
    /\ successCount' = 0
    /\ ret' = None
    /\ modelCalls' = <<>>
    /\ reviewComments' = <<>>
    /\ reviews' = <<>>
    /\ contentFetches' = 0

\* RunFile leaving out the ninth argument, so that the default applies
RunFileDefaultTone(fs, j, email) ==
    /\ fileIdx' = j
    /\ hpc' = "file"
    /\ lines' = fs[j].patch.lines
    /\ sarcasmMode' = BoolValue(SARCASM_MODE)
    /\ pc' = "start"
    /\ FreshLocals

\* lines 80-93: createDocumentationSuggestions is called for file j with the
\* author e-mail, a string, as its sarcasmMode argument; the default of the
\* parameter (suggestions.ts:79) applies to an undefined argument only
RunFile(fs, j, email) ==
    /\ fileIdx' = j
    /\ hpc' = "file"
    /\ lines' = fs[j].patch.lines
    /\ sarcasmMode' = StringValue(email)
    /\ pc' = "start"
    /\ FreshLocals

\* the first file after file k that is processed (0 when there is none)
NextFile(fs, k) ==
    LET rest == {j \in (k + 1)..Len(fs) : HasPatch(fs[j])}
    IN  IF rest = {} THEN 0 ELSE CHOOSE j \in rest : \A i \in rest : j <= i

\* lines 77-116: the loop over the files after file k, up to the next await
FileLoop(fs, k, email) ==
    LET j == NextFile(fs, k)
    IN  IF j = 0
        THEN /\ hpc' = "compare"
             /\ fileIdx' = Len(fs)
             /\ lines' = <<>>
             /\ sarcasmMode' = BoolValue(SARCASM_MODE)
             /\ pc' = "idle"
             /\ FreshLocals
        ELSE RunFile(fs, j, email)

\* lines 21-43: the payload is read inside the outer try
PullRequestReceived ==
    /\ hpc = "received"
    /\ event.name \in PullRequestEvents
    /\ IF event.payload.repository = "missing" \/ ~event.payload.pull_request
       THEN hpc' = "returned" /\ caught' = "outer"
       ELSE hpc' = "get_commits" /\ caught' = caught
    /\ UNCHANGED <<parked, event, commits, commitIdx, commitDetails, fileIdx, handlerLog,
                   pipelineVars>>

\* LastCommitIndex taking the oldest commit
FirstCommitIndex(cs) == 1

\* line 47: commits[commits.length - 1]
LastCommitIndex(cs) == Len(cs)

\* lines 34-72: getCommitsInPR settles ([] on failure); the last commit is
\* selected and tested
GetCommitsInPR ==
    /\ hpc = "get_commits"
    /\ \E ok \in BOOLEAN, cs \in CommitLists :
          /\ ~ok => cs = <<>>
          /\ commits' = cs
          /\ handlerLog' = Append(handlerLog, Call("getCommitsInPR", 0, 0, ok))
          /\ IF Len(cs) = 0 THEN hpc' = "compare" /\ commitIdx' = 0
             ELSE /\ commitIdx' = LastCommitIndex(cs)
                  /\ IF SkipsCommit(cs[LastCommitIndex(cs)].message)
                     THEN hpc' = "returned"
                     ELSE hpc' = "get_details"
    /\ UNCHANGED <<parked, event, commitDetails, fileIdx, caught, pipelineVars>>

\* lines 63-100: getCommitDetails settles (null on failure)
GetCommitDetails ==
    /\ hpc = "get_details"
    /\ \E d \in CommitDetailsResults :
          /\ commitDetails' = d
          /\ handlerLog' = Append(handlerLog,
                 Call("getCommitDetails", commits[commitIdx].sha, 0, d.ok))
          /\ FileLoop(d.files, 0, commits[commitIdx].email)
    /\ UNCHANGED <<parked, event, commits, commitIdx, caught, lineIndex, position>>

\* lines 77-116: createDocumentationSuggestions has returned
FileReturned ==
    /\ hpc = "file"
    /\ pc = "done"
    /\ handlerLog' = Append(handlerLog,
           SuggestionsCall(commits[commitIdx].sha, fileIdx))
    /\ FileLoop(commitDetails.files, fileIdx, commits[commitIdx].email)
    /\ UNCHANGED <<parked, event, commits, commitIdx, commitDetails, caught, lineIndex,
                   position>>

\* lines 106-124: compareCommits settles (null on failure)
CompareCommits ==
    /\ hpc = "compare"
    /\ \E ok \in BOOLEAN :
          handlerLog' = Append(handlerLog, Call("compareCommits", 0, 0, ok))
    /\ hpc' = "returned"
    /\ UNCHANGED <<parked, event, commits, commitIdx, commitDetails, fileIdx, caught,
                   pipelineVars>>

(***************************************************************************)
(* push (lines 499-524) with its getCommitDetails helper (lines 265-301).  *)
(***************************************************************************)
\* lines 505-523: the loop over the commits after commit k, up to the next
\* await or the exception that ends it
PushLoop(k) ==
    IF k >= Len(event.payload.commits)
    THEN hpc' = "returned" /\ commitIdx' = k
    ELSE IF event.payload.repository = "missing"
    THEN hpc' = "escaped" /\ commitIdx' = k + 1
    ELSE IF event.payload.repository = "anonymous"
    THEN hpc' = "returned" /\ commitIdx' = Len(event.payload.commits)
    ELSE hpc' = "push_get_commit" /\ commitIdx' = k + 1

\* a loop over the files that does not test the status
NextKeptFileAny(fs, k) ==
    IF k >= Len(fs) THEN 0 ELSE k + 1

\* the first file after file k that is not removed (0 when there is none)
NextKeptFile(fs, k) ==
    LET rest == {j \in (k + 1)..Len(fs) : fs[j].status # "removed"}
    IN  IF rest = {} THEN 0 ELSE CHOOSE j \in rest : \A i \in rest : j <= i

\* lines 279-296: the loop over the files after file k
PushFileLoop(fs, k) ==
    LET j == NextKeptFile(fs, k)
    IN  IF j = 0
        THEN fileIdx' = Len(fs) /\ PushLoop(commitIdx)
        ELSE fileIdx' = j /\ hpc' = "push_get_content" /\ commitIdx' = commitIdx

\* lines 500-522: nothing is inside a try
PushReceived ==
    /\ hpc = "received"
    /\ event.name = "push"
    /\ commits' = event.payload.commits
    /\ IF ~event.payload.hasCommits
       THEN hpc' = "escaped" /\ commitIdx' = 0
       ELSE PushLoop(0)
    /\ UNCHANGED <<parked, event, commitDetails, fileIdx, handlerLog, caught,
                   pipelineVars>>

\* lines 266-296: repos.getCommit settles (null on failure)
PushGetCommit ==
    /\ hpc = "push_get_commit"
    /\ \E d \in CommitDetailsResults :
          /\ commitDetails' = d
          /\ handlerLog' = Append(handlerLog,
                 Call("getCommit", commits[commitIdx].sha, 0, d.ok))
          /\ PushFileLoop(d.files, 0)
    /\ UNCHANGED <<parked, event, commits, caught, pipelineVars>>

\* lines 289-293 and 304-332: getFileContent settles (null on failure)
PushGetFileContent ==
    /\ hpc = "push_get_content"
    /\ \E ok \in BOOLEAN :
          handlerLog' = Append(handlerLog,
              Call("getFileContent", commits[commitIdx].sha, fileIdx, ok))
    /\ PushFileLoop(commitDetails.files, fileIdx)
    /\ UNCHANGED <<parked, event, commits, commitDetails, caught, pipelineVars>>

EventNext ==
    \/ PullRequestReceived
    \/ GetCommitsInPR
    \/ GetCommitDetails
    \/ FileReturned
    \/ CompareCommits
    \/ PushReceived
    \/ PushGetCommit
    \/ PushGetFileContent
    \/ CollectCandidates
    \/ GetFileContent
    \/ SkipLine
    \/ GenerateText
    \/ GenerateTextFails
    \/ CommentAccepted
    \/ CommentRejected
    \/ ReviewAccepted
    \/ ReviewRejected

SpecEvent == EventInit /\ [][EventNext]_vars

(***************************************************************************)
(* Two invocations of the pull_request handlers (lines 18-125 and          *)
(* 128-235), interleaved at their awaits.  Everything a handler and the    *)
(* functions it awaits work on is a parameter or a local declared inside   *)
(* them; the modules declare constants only (suggestions.ts 8 and 65).  An *)
(* await of the running invocation may let the other one continue.         *)
(***************************************************************************)
\* the parameters and locals of the running invocation
Locals ==
    [lines |-> lines, sarcasmMode |-> sarcasmMode, pc |-> pc,
     docLines |-> docLines, deletedLineNums |-> deletedLineNums,
     fileContent |-> fileContent, cur |-> cur, text |-> text,
     comment |-> comment, successCount |-> successCount, ret |-> ret,
     modelCalls |-> modelCalls, reviewComments |-> reviewComments,
     reviews |-> reviews, lineIndex |-> lineIndex, position |-> position,
     event |-> event, hpc |-> hpc, commits |-> commits,
     commitIdx |-> commitIdx, commitDetails |-> commitDetails,
     fileIdx |-> fileIdx, handlerLog |-> handlerLog, caught |-> caught,
     contentFetches |-> contentFetches]

\* Resume with the tone flag kept in a variable of the module
ResumeSharedTone(s) ==
    /\ lines' = s.lines
    /\ sarcasmMode' = sarcasmMode
    /\ pc' = s.pc
    /\ docLines' = s.docLines
    /\ deletedLineNums' = s.deletedLineNums
    /\ fileContent' = s.fileContent
    /\ cur' = s.cur
    /\ text' = s.text
    /\ comment' = s.comment
    /\ successCount' = s.successCount
    /\ ret' = s.ret
    /\ modelCalls' = s.modelCalls
    /\ reviewComments' = s.reviewComments
    /\ reviews' = s.reviews
    /\ lineIndex' = s.lineIndex
    /\ position' = s.position
    /\ event' = s.event
    /\ hpc' = s.hpc
    /\ commits' = s.commits
    /\ commitIdx' = s.commitIdx
    /\ commitDetails' = s.commitDetails
    /\ fileIdx' = s.fileIdx
    /\ handlerLog' = s.handlerLog
    /\ caught' = s.caught
    /\ contentFetches' = s.contentFetches

\* the invocation that waited continues with its own parameters and locals
Resume(s) ==
    /\ lines' = s.lines
    /\ sarcasmMode' = s.sarcasmMode
    /\ pc' = s.pc
    /\ docLines' = s.docLines
    /\ deletedLineNums' = s.deletedLineNums
    /\ fileContent' = s.fileContent
    /\ cur' = s.cur
    /\ text' = s.text
    /\ comment' = s.comment
    /\ successCount' = s.successCount
    /\ ret' = s.ret
    /\ modelCalls' = s.modelCalls
    /\ reviewComments' = s.reviewComments
    /\ reviews' = s.reviews
    /\ lineIndex' = s.lineIndex
    /\ position' = s.position
    /\ event' = s.event
    /\ hpc' = s.hpc
    /\ commits' = s.commits
    /\ commitIdx' = s.commitIdx
    /\ commitDetails' = s.commitDetails
    /\ fileIdx' = s.fileIdx
    /\ handlerLog' = s.handlerLog
    /\ caught' = s.caught
    /\ contentFetches' = s.contentFetches

\* the running invocation waits at its await and the other one continues
HandlerSwitch ==
    /\ parked.paired
    /\ parked' = [paired |-> TRUE, locals |-> Locals]
    /\ Resume(parked.locals)

\* a pull_request.opened and a pull_request.synchronize event are delivered
PairEvent(name) == [name |-> name, payload |-> Payload("ok", TRUE, FALSE, <<>>)]

PairInit ==
    /\ parked = [paired |-> TRUE,
                 locals |-> ReceivedLocals(PairEvent("pull_request.synchronize"))]
    /\ event = PairEvent("pull_request.opened")
    /\ hpc = "received"
    /\ commits = <<>>
    /\ commitIdx = 0
    /\ commitDetails = NoDetails
    /\ fileIdx = 0
    /\ handlerLog = <<>>
    /\ caught = "none"
    /\ lines = <<>>
    /\ pc = "idle"
    /\ lineIndex = 0
    /\ position = None
    /\ Idle

PairNext ==
    \/ HandlerSwitch
    \/ PullRequestReceived
    \/ GetCommitsInPR
    \/ GetCommitDetails
    \/ FileReturned
    \/ CompareCommits
    \/ CollectCandidates
    \/ GetFileContent
    \/ SkipLine
    \/ GenerateText
    \/ GenerateTextFails
    \/ CommentAccepted
    \/ CommentRejected
    \/ ReviewAccepted
    \/ ReviewRejected

SpecPair == PairInit /\ [][PairNext]_vars

(***************************************************************************)
(* createDocumentationSuggestions, batched revision                        *)
(* (src/unnamed/part_001).                                                 *)
(***************************************************************************)
\* lines 70-81: every added line is a candidate, blank ones included
RECURSIVE BatchCollectLoop(_, _, _)
BatchCollectLoop(ls, i, docs) ==
    IF i >= Len(ls) THEN docs
    ELSE LET line == ls[i + 1].text
         IN  IF StartsWith(line, <<"+">>) /\ ~StartsWith(line, <<"+", "+", "+">>)
             THEN BatchCollectLoop(ls, i + 1,
                      Append(docs, [line |-> i, codeLine |-> Substring(line, 1)]))
             ELSE BatchCollectLoop(ls, i + 1, docs)

\* docLines.map((doc) => doc.codeLine).join("\n")
RECURSIVE JoinCodeLines(_)
JoinCodeLines(docs) ==
    IF docs = <<>> THEN <<>>
    ELSE IF Len(docs) = 1 THEN docs[1].codeLine
    ELSE docs[1].codeLine \o <<"\n">> \o JoinCodeLines(Tail(docs))

\* s.split("\n")
RECURSIVE SplitLines(_, _)
SplitLines(s, current) ==
    IF s = <<>> THEN <<current>>
    ELSE IF Head(s) = "\n" THEN <<current>> \o SplitLines(Tail(s), <<>>)
    ELSE SplitLines(Tail(s), Append(current, Head(s)))

BATCH_PROMPT_BASE == <<"<internal_reminder>", "This is the text you should review:">>

\* SameLineCount accepting a response with fewer lines
SameLineCountAtMost(improvedLines, docs) == Len(improvedLines) <= Len(docs)

\* line 114: the response is accepted as a 1:1 replacement
SameLineCount(improvedLines, docs) == Len(improvedLines) = Len(docs)

\* lines 206-213
BatchFormatSuggestionComment(content) ==
    <<"Documentation improvement suggestion:", "\n", "<fence>suggestion", "\n">>
        \o content \o <<"\n", "<fence>">>

\* lines of a patch handed to the batched revision
BatchLines ==
    {HunkHeader(1, MaxCount), RemovedLine(<<"x">>), ContextLine(<<"x">>),
     AddedLine(<<"x">>), AddedLine(<<>>), PlusFileLine}

\* what the text-generation backend may answer to a batched prompt
BatchResponses == SeqsUpTo({"y", "\n"}, MaxResp)

BatchInit ==
    /\ lines \in SeqsUpTo(BatchLines, MaxPatch)
    /\ pc = "b_start"
    /\ lineIndex = 0
    /\ position = None
    /\ Idle
    /\ NoHandler

\* lines 64-87 and 154-156
BatchCollect ==
    /\ pc = "b_start"
    /\ docLines' = BatchCollectLoop(lines, 0, <<>>)
    /\ IF docLines' = <<>>
       THEN pc' = "b_done" /\ ret' = 0
       ELSE pc' = "b_generate" /\ ret' = ret
    /\ UNCHANGED <<handlerVars, contentFetches,
                   lines, sarcasmMode, deletedLineNums, fileContent, cur, text,
                   comment, successCount, modelCalls, reviewComments, reviews,
                   lineIndex, position>>

\* lines 104-156, once generateText has settled with t
BatchAfterGenerateText(t) ==
    /\ text' = t
    /\ IF t = <<>>
       THEN pc' = "b_done" /\ ret' = 0 /\ comment' = comment
       ELSE IF SameLineCount(SplitLines(t, <<>>), docLines)
       THEN /\ comment' = [body |-> BatchFormatSuggestionComment(t),
                           line |-> calculatePositionInFile(lines, docLines[1].line)]
            /\ pc' = "b_comment"
            /\ ret' = ret
       ELSE pc' = "b_done" /\ ret' = 0 /\ comment' = comment

\* lines 91-102: generateText answers
BatchGenerateText ==
    /\ pc = "b_generate"
    /\ modelCalls' = Append(modelCalls,
           [system |-> BATCH_PROMPT_BASE, prompt |-> JoinCodeLines(docLines),
            doc |-> 0, ok |-> TRUE])
    /\ \E t \in BatchResponses : BatchAfterGenerateText(t)
    /\ UNCHANGED <<handlerVars, contentFetches,
                   lines, sarcasmMode, docLines, deletedLineNums, fileContent,
                   cur, successCount, reviewComments, reviews, lineIndex,
                   position>>

\* lines 98-108: generateText fails; the catch turns it into text ""
BatchGenerateTextFails ==
    /\ pc = "b_generate"
    /\ modelCalls' = Append(modelCalls,
           [system |-> BATCH_PROMPT_BASE, prompt |-> JoinCodeLines(docLines),
            doc |-> 0, ok |-> FALSE])
    /\ BatchAfterGenerateText(<<>>)
    /\ UNCHANGED <<handlerVars, contentFetches,
                   lines, sarcasmMode, docLines, deletedLineNums, fileContent,
                   cur, successCount, reviewComments, reviews, lineIndex,
                   position>>

\* lines 121-139 with github.ts 99-118: the positioned comment is accepted
BatchCommentAccepted ==
    /\ pc = "b_comment"
    /\ reviewComments' = Append(reviewComments, ReviewCommentCall(TRUE))
    /\ pc' = "b_done"
    /\ ret' = 1
    /\ UNCHANGED <<handlerVars, contentFetches,
                   lines, sarcasmMode, docLines, deletedLineNums, fileContent,
                   cur, text, comment, successCount, modelCalls, reviews,
                   lineIndex, position>>

\* github.ts 119-124: the positioned comment is rejected
BatchCommentRejected ==
    /\ pc = "b_comment"
    /\ reviewComments' = Append(reviewComments, ReviewCommentCall(FALSE))
    /\ pc' = "b_review"
    /\ UNCHANGED <<handlerVars, contentFetches,
                   lines, sarcasmMode, docLines, deletedLineNums, fileContent,
                   cur, text, comment, successCount, ret, modelCalls, reviews,
                   lineIndex, position>>

\* github.ts 124-140: the whole-pull-request review is accepted or fails;
\* createReviewComment returns true either way and line 139 returns 1
BatchReviewSettled ==
    /\ pc = "b_review"
    /\ \E ok \in BOOLEAN : reviews' = Append(reviews, ReviewCall(ok))
    /\ pc' = "b_done"
    /\ ret' = 1
    /\ UNCHANGED <<handlerVars, contentFetches,
                   lines, sarcasmMode, docLines, deletedLineNums, fileContent,
                   cur, text, comment, successCount, modelCalls, reviewComments,
                   lineIndex, position>>

BatchNext ==
    \/ BatchCollect
    \/ BatchGenerateText
    \/ BatchGenerateTextFails
    \/ BatchCommentAccepted
    \/ BatchCommentRejected
    \/ BatchReviewSettled

SpecBatch == BatchInit /\ [][BatchNext]_vars

(***************************************************************************)
(* C1                                                                      *)
(***************************************************************************)
\* C1 as stated: with a single hunk header "@@ -a,n +c,m @@", the position
\* computed for the k-th non-removed line after the header is c + k - 1.
C1_AsStated ==
    (/\ pc = "pos_done"
     /\ SingleHeaderBefore(lines, lineIndex)
     /\ ~IsRemovedLine(lines[lineIndex + 1]))
    => LET h == LastHeaderBefore(lines, lineIndex)
           k == Counted(lines, h + 1, lineIndex)
       IN  position = lines[h + 1].start + k - 1

\* C1 (amended): with a single hunk header "@@ -a,n +c,m @@" and no other
\* "@@ " line, the position computed for the k-th non-removed line after the
\* header is max(c + k - 1, 1): the result is clamped to 1 when c = 0, k = 1.
C1_PositionOfKthLine ==
    (/\ pc = "pos_done"
     /\ SingleHeaderBefore(lines, lineIndex)
     /\ ~IsRemovedLine(lines[lineIndex + 1]))
    => LET h == LastHeaderBefore(lines, lineIndex)
           k == Counted(lines, h + 1, lineIndex)
       IN  position = Max(lines[h + 1].start + k - 1, 1)

\* a position c + 1 was computed for the second non-removed line after the
\* only header, with a removed line in between
C1_Witness ==
    /\ pc = "pos_done"
    /\ SingleHeaderBefore(lines, lineIndex)
    /\ ~IsRemovedLine(lines[lineIndex + 1])
    /\ Counted(lines, LastHeaderBefore(lines, lineIndex) + 1, lineIndex) >= 2
    /\ \E j \in 0..(lineIndex - 1) :
          j > LastHeaderBefore(lines, lineIndex) /\ IsRemovedLine(lines[j + 1])
    /\ position = lines[LastHeaderBefore(lines, lineIndex) + 1].start + 1

(***************************************************************************)
(* C2                                                                      *)
(***************************************************************************)
\* C2 as stated: in a patch without any hunk header line every computed
\* position is 1, whatever precedes the line.
C2_AsStated ==
    (pc = "pos_done" /\ AtIndices(lines) = {}) => position = 1

(***************************************************************************)
(* C5                                                                      *)
(***************************************************************************)
\* the patch without its removed lines
RECURSIVE WithoutRemoved(_)
WithoutRemoved(ls) ==
    IF ls = <<>> THEN <<>>
    ELSE IF IsRemovedLine(Head(ls)) THEN WithoutRemoved(Tail(ls))
    ELSE <<Head(ls)>> \o WithoutRemoved(Tail(ls))

\* index of line i in WithoutRemoved(ls)
IndexWithoutRemoved(ls, i) ==
    Cardinality({j \in 0..(i - 1) : ~IsRemovedLine(ls[j + 1])})

\* C5 as stated: the position of a line is the start of the most recent hunk
\* header plus the number of added and context lines strictly between the
\* header and the line; removing the removed lines changes no position.
C5_AsStated ==
    (pc = "pos_done" /\ LastHeaderBefore(lines, lineIndex) # None)
    => LET h == LastHeaderBefore(lines, lineIndex)
       IN  /\ position = lines[h + 1].start + Counted(lines, h + 1, lineIndex - 1)
           /\ ~IsRemovedLine(lines[lineIndex + 1])
              => calculatePositionInFile(WithoutRemoved(lines),
                     IndexWithoutRemoved(lines, lineIndex)) = position

\* C5 (amended): the position of a line is the start c of the most recent
\* hunk header plus the number of lines strictly between them that are
\* neither removed lines nor "@@ " lines, clamped to at least 1 (c = 0 with
\* nothing in between gives 1); header lines and removed lines never count,
\* and deleting every removed line from the patch changes no position.
C5_RemovedAndHeadersNeverCount ==
    (pc = "pos_done" /\ LastHeaderBefore(lines, lineIndex) # None)
    => LET h == LastHeaderBefore(lines, lineIndex)
       IN  /\ position =
                Max(lines[h + 1].start + Counted(lines, h + 1, lineIndex - 1), 1)
           /\ ~IsRemovedLine(lines[lineIndex + 1])
              => calculatePositionInFile(WithoutRemoved(lines),
                     IndexWithoutRemoved(lines, lineIndex)) = position

\* a position computed for an added line with a removed line and a second
\* "@@ " line between it and its hunk header
C5_Witness ==
    /\ pc = "pos_done"
    /\ LastHeaderBefore(lines, lineIndex) # None
    /\ StartsWith(lines[lineIndex + 1].text, <<"+">>)
    /\ \E j \in 0..(lineIndex - 1) :
          j > LastHeaderBefore(lines, lineIndex) /\ IsRemovedLine(lines[j + 1])
    /\ \E j \in 0..(lineIndex - 1) :
          j > LastHeaderBefore(lines, lineIndex) /\ IsAtLine(lines[j + 1])
    /\ position = lines[LastHeaderBefore(lines, lineIndex) + 1].start

(***************************************************************************)
(* C6                                                                      *)
(***************************************************************************)
\* C6: every hunk header resets the counter to its own start line: the
\* position of a line is the position it has in the patch cut down to the
\* most recent hunk header and the lines after it.
C6_HeaderResetsCounter ==
    (pc = "pos_done" /\ LastHeaderBefore(lines, lineIndex) # None)
    => LET h == LastHeaderBefore(lines, lineIndex)
       IN  /\ position =
                calculatePositionInFile(SubSeq(lines, h + 1, Len(lines)),
                                        lineIndex - h)
           /\ position >= lines[h + 1].start
           /\ position <= Max(lines[h + 1].start + (lineIndex - h - 1), 1)

\* a position computed under the second hunk header of a patch whose first
\* hunk has a counted line
C6_Witness ==
    /\ pc = "pos_done"
    /\ Cardinality({j \in HeaderIndices(lines) : j < lineIndex}) >= 2
    /\ \E g \in HeaderIndices(lines) : \E j \in 0..(lineIndex - 1) :
          /\ g < j /\ j < LastHeaderBefore(lines, lineIndex)
          /\ ~IsRemovedLine(lines[j + 1]) /\ ~IsAtLine(lines[j + 1])
    /\ position = lines[LastHeaderBefore(lines, lineIndex) + 1].start

(***************************************************************************)
(* C3                                                                      *)
(***************************************************************************)
\* the patch with the start line of the hunk header at index h set to c
WithStart(ls, h, c) == [ls EXCEPT ![h + 1].start = c]

\* review comment number n was submitted for the first line of a hunk whose
\* declared new-file start is greater than 1
FirstLineOfHunk(n) ==
    LET i == docLines[reviewComments[n].doc].line
        h == LastHeaderBefore(lines, i)
    IN  h # None /\ i = h + 1 /\ lines[h + 1].start > 1

\* C3 as stated: the submitted position is an offset inside the hunk: for
\* the first line of a hunk with start c > 1 it does not depend on c.
C3_AsStated ==
    \A n \in 1..Len(reviewComments) :
        FirstLineOfHunk(n)
        => LET i == docLines[reviewComments[n].doc].line
               h == LastHeaderBefore(lines, i)
           IN  \A c \in 2..(MaxStart + 1) :
                   calculatePositionInFile(WithStart(lines, h, c), i)
                       = reviewComments[n].line

\* C3 (amended): the position submitted with a review comment is the line
\* number in the new file that the hunk header implies, sent as the line
\* argument on side RIGHT: the header's start c plus the number of
\* non-removed lines between the header and the candidate (at least 1); for
\* the first line of a hunk with c > 1 it is c itself, so it varies with c.
C3_PositionIsNewFileLine ==
    \A n \in 1..Len(reviewComments) :
        LET rc == reviewComments[n]
            i  == docLines[rc.doc].line
            h  == LastHeaderBefore(lines, i)
        IN  /\ rc.side = "RIGHT"
            /\ h # None
               => rc.line = Max(lines[h + 1].start + Counted(lines, h + 1, i - 1), 1)
            /\ h = None => rc.line = Max(Counted(lines, 0, i - 1), 1)
            /\ FirstLineOfHunk(n) => rc.line = lines[h + 1].start

\* a comment was submitted for the first line of a hunk that starts at
\* MaxStart > 1, at position MaxStart
C3_Witness ==
    \E n \in 1..Len(reviewComments) :
        /\ FirstLineOfHunk(n)
        /\ reviewComments[n].line = MaxStart
        /\ MaxStart > 1

(***************************************************************************)
(* C4                                                                      *)
(***************************************************************************)
\* C4 as stated: every position passed to createReviewComment lies in the
\* new-file range [c, c + m - 1] of some hunk header of the patch.
C4_AsStated ==
    \A n \in 1..Len(reviewComments) :
        \E h \in HeaderIndices(lines) :
            /\ lines[h + 1].start <= reviewComments[n].line
            /\ reviewComments[n].line <= lines[h + 1].start + lines[h + 1].count - 1

(***************************************************************************)
(* C7                                                                      *)
(***************************************************************************)
\* line i is an added line with non-blank content
IsNonBlankAdded(ls, i) ==
    /\ StartsWith(ls[i + 1].text, <<"+">>)
    /\ ~StartsWith(ls[i + 1].text, <<"+", "+", "+">>)
    /\ \E k \in 2..Len(ls[i + 1].text) : ~IsSpace(ls[i + 1].text[k])

\* line i comes after a removed line with the same computed position
ReplacesRemoved(ls, i) ==
    \E j \in 0..(i - 1) :
        /\ IsRemovedLine(ls[j + 1])
        /\ calculatePositionInFile(ls, j) = calculatePositionInFile(ls, i)

\* C7: an added line with non-blank content whose position equals that of a
\* removed line seen earlier is still collected as a candidate line.
C7_ReplacementIsCandidate ==
    pc # "start"
    => \A i \in 0..(Len(lines) - 1) :
           (IsNonBlankAdded(lines, i) /\ ReplacesRemoved(lines, i))
           => \E n \in 1..Len(docLines) :
                  /\ docLines[n].line = i
                  /\ <<"+">> \o docLines[n].codeLine = lines[i + 1].text

\* the candidates were collected from a patch in which an added line
\* replaces a removed line, and that line is a candidate
C7_Witness ==
    /\ pc = "get_content"
    /\ \E n \in 1..Len(docLines) :
           /\ IsNonBlankAdded(lines, docLines[n].line)
           /\ ReplacesRemoved(lines, docLines[n].line)

(***************************************************************************)
(* C8                                                                      *)
(***************************************************************************)
\* the replacement text of a response: what follows the "suggestion:" marker
\* when the response has both markers, the whole response otherwise
RECURSIVE AfterMarker(_, _)
AfterMarker(s, w) ==
    IF s = <<>> THEN <<>>
    ELSE IF Head(s) = w THEN Tail(s) ELSE AfterMarker(Tail(s), w)

ReplacementText(t) ==
    IF (\E k \in 1..Len(t) : t[k] = "reason:")
       /\ (\E k \in 1..Len(t) : t[k] = "suggestion:")
    THEN AfterMarker(t, "suggestion:")
    ELSE t

\* C8 as stated: when the replacement text of the response equals the
\* original line after trimming, no comment is published and nothing is
\* counted, for a bare response and for a "reason: / suggestion:" response.
C8_AsStated ==
    pc \in {"comment", "review"}
    => Trim(ReplacementText(text)) # Trim(docLines[cur].codeLine)

(***************************************************************************)
(* C9                                                                      *)
(***************************************************************************)
\* a line that is blank or carries one of the bot-metadata markers
IsBotMetadata(codeLine) ==
    \/ \A k \in 1..Len(codeLine) : codeLine[k] \in {" ", "\n"}
    \/ \E k \in 1..Len(codeLine) :
           codeLine[k] \in {"Co-authored-by:", "Suggested",
                            "Apply suggestion from", "bot@"}

\* C9: a candidate that is blank or contains "Co-authored-by:", "Suggested",
\* "Apply suggestion from" or "bot@" is never the target line of a model
\* call, never gets a comment or a review, and is never counted.
C9_MetadataNeverSent ==
    /\ \A n \in 1..Len(modelCalls) :
           ~IsBotMetadata(docLines[modelCalls[n].doc].codeLine)
    /\ \A n \in 1..Len(reviewComments) :
           ~IsBotMetadata(docLines[reviewComments[n].doc].codeLine)
    /\ \A n \in 1..Len(reviews) :
           ~IsBotMetadata(docLines[reviews[n].doc].codeLine)
    /\ successCount <=
           Cardinality({n \in 1..Len(docLines) :
                           n < cur /\ ~IsBotMetadata(docLines[n].codeLine)})
    /\ (pc \in {"comment", "review"}) => ~IsBotMetadata(docLines[cur].codeLine)

\* the file is finished; it had a candidate containing "Suggested" that was
\* passed over and another candidate that did get a comment
C9_Witness ==
    /\ pc = "done"
    /\ \E n \in 1..Len(docLines) :
           /\ \E k \in 1..Len(docLines[n].codeLine) :
                  docLines[n].codeLine[k] = "Suggested"
           /\ \A m \in 1..Len(modelCalls) : modelCalls[m].doc # n
    /\ Len(reviewComments) > 0
    /\ ret = 1

(***************************************************************************)
(* C10                                                                     *)
(***************************************************************************)
\* the number of lines of a response: one more than its newlines
LineCount(t) == 1 + Cardinality({k \in 1..Len(t) : t[k] = "\n"})

\* C10: in batched mode, when the response has another number of lines than
\* the candidates sent, the batch is discarded: the function returns 0 and
\* neither createReviewComment nor the fallback review is called.
C10_BatchDiscardedOnMismatch ==
    (Len(modelCalls) = 1 /\ LineCount(text) # Len(docLines))
    => /\ pc = "b_done"
       /\ ret = 0
       /\ reviewComments = <<>>
       /\ reviews = <<>>

\* a non-empty response with fewer lines than the candidates sent was
\* discarded
C10_Witness ==
    /\ pc = "b_done"
    /\ Len(modelCalls) = 1
    /\ text # <<>>
    /\ Len(docLines) >= 2
    /\ LineCount(text) < Len(docLines)
    /\ ret = 0

(***************************************************************************)
(* C11                                                                     *)
(***************************************************************************)
\* the calls of the sequence calls made for candidate d
CallsFor(calls, d) == {n \in 1..Len(calls) : calls[n].doc = d}

\* processIndividualLine has returned for candidate d
Settled(d) == d < cur

\* C11: for every candidate, the whole-pull-request review is called at most
\* once, only after the positioned comment call of that candidate failed, and
\* exactly once when it failed and createReviewComment has returned; a
\* candidate whose review was accepted is reported as a success.
C11_FallbackExactlyOnce ==
    /\ \A d \in 1..Len(docLines) :
          LET failed  == {n \in CallsFor(reviewComments, d) : ~reviewComments[n].ok}
              fallback == CallsFor(reviews, d)
          IN  /\ Cardinality(CallsFor(reviewComments, d)) <= 1
              /\ Cardinality(fallback) <= 1
              /\ fallback # {} => failed # {}
              /\ (failed # {} /\ Settled(d)) => Cardinality(fallback) = 1
              /\ (failed # {} /\ ~Settled(d)) => (cur = d /\ pc = "review")
    /\ successCount >= Cardinality({d \in 1..Len(docLines) :
                           /\ Settled(d)
                           /\ \E n \in CallsFor(reviews, d) : reviews[n].ok})

\* the positioned comment of the first candidate was rejected, its review was
\* accepted, and the function has returned a count that includes it
C11_Witness ==
    /\ pc = "done"
    /\ \E n \in CallsFor(reviewComments, 1) : ~reviewComments[n].ok
    /\ \E n \in CallsFor(reviews, 1) : reviews[n].ok
    /\ \E n \in CallsFor(reviewComments, 2) : reviewComments[n].ok
    /\ CallsFor(reviews, 2) = {}
    /\ ret = 2

(***************************************************************************)
(* C12                                                                     *)
(***************************************************************************)
\* the createDocumentationSuggestions calls of the handler that have returned
Runs == {n \in 1..Len(handlerLog) :
            handlerLog[n].op = "createDocumentationSuggestions"}

\* the files of the commit that have a non-empty patch
PatchedFiles ==
    {j \in 1..Len(commitDetails.files) :
        /\ commitDetails.files[j].patch.defined
        /\ commitDetails.files[j].patch.lines # <<>>}

\* the handler is past its loop over the files
FilesDone == hpc \in {"compare", "returned"}

\* the positioned comment and the review of candidate d both failed
BothFailed(d) ==
    /\ \E n \in CallsFor(reviewComments, d) : ~reviewComments[n].ok
    /\ \E n \in CallsFor(reviews, d) : ~reviews[n].ok

\* candidate d was looked at: it was skipped as metadata or sent to the model
Processed(d) ==
    /\ Settled(d)
    /\ IsBotMetadata(docLines[d].codeLine) \/ CallsFor(modelCalls, d) # {}

\* C12: when the positioned comment and the fallback review of a candidate
\* both fail, createReviewComment returns normally (no handler catch runs and
\* nothing escapes), every later candidate of the file is processed before
\* createDocumentationSuggestions returns, and every later file of the commit
\* that has a patch is processed before the handler leaves its file loop.
C12_FailOpen ==
    /\ \A d \in 1..Len(docLines) :
          BothFailed(d) =>
             /\ Settled(d)
             /\ hpc = "file" /\ caught = "none"
             /\ pc = "done" => \A e \in (d + 1)..Len(docLines) : Processed(e)
    /\ \A n \in Runs :
          handlerLog[n].publishFailed =>
             /\ hpc # "escaped" /\ caught = "none"
             /\ FilesDone =>
                   \A j \in PatchedFiles :
                      j > handlerLog[n].file =>
                         \E m \in Runs : m > n /\ handlerLog[m].file = j

\* both calls failed for a candidate of the first file; its later candidate
\* was processed, and the second file got a comment afterwards
C12_Witness ==
    /\ hpc = "returned"
    /\ \E n, m \in Runs :
          /\ n < m
          /\ handlerLog[n].file = 1 /\ handlerLog[n].publishFailed
          /\ handlerLog[m].file = 2 /\ handlerLog[m].ret = 1
          /\ ~handlerLog[m].publishFailed

(***************************************************************************)
(* C13                                                                     *)
(***************************************************************************)
\* the generateText call of candidate d failed
ModelFailed(d) == \E n \in CallsFor(modelCalls, d) : ~modelCalls[n].ok

\* C13: when generateText fails for a candidate, no positioned comment and no
\* review is submitted for it and it is not counted, no handler catch runs
\* and nothing escapes, every later candidate of the file is processed before
\* createDocumentationSuggestions returns, and every later file of the commit
\* that has a patch is processed before the handler leaves its file loop.
C13_BackendFailureIsSilent ==
    /\ \A d \in 1..Len(docLines) :
          ModelFailed(d) =>
             /\ CallsFor(reviewComments, d) = {}
             /\ CallsFor(reviews, d) = {}
             /\ Settled(d)
             /\ hpc = "file" /\ caught = "none"
             /\ pc = "done" => \A e \in (d + 1)..Len(docLines) : Processed(e)
    /\ successCount <= Cardinality({d \in 1..Len(docLines) : ~ModelFailed(d)})
    /\ \A n \in Runs :
          handlerLog[n].modelFailed =>
             /\ hpc # "escaped" /\ caught = "none"
             /\ FilesDone =>
                   \A j \in PatchedFiles :
                      j > handlerLog[n].file =>
                         \E m \in Runs : m > n /\ handlerLog[m].file = j

\* generateText failed for the candidate of the first file, which got no
\* comment; the second file was processed afterwards and got one
C13_Witness ==
    /\ hpc = "returned"
    /\ \E n, m \in Runs :
          /\ n < m
          /\ handlerLog[n].file = 1 /\ handlerLog[n].modelFailed
          /\ handlerLog[n].ret = 0
          /\ handlerLog[m].file = 2 /\ handlerLog[m].ret = 1
          /\ ~handlerLog[m].modelFailed

(***************************************************************************)
(* C14                                                                     *)
(***************************************************************************)
\* the added lines of ls (counted from 0) whose content is empty or blank
BlankAddedLines(ls) ==
    {i \in 0..(Len(ls) - 1) :
        /\ Len(ls[i + 1].text) >= 1
        /\ ls[i + 1].text[1] = "+"
        /\ \A k \in 2..Len(ls[i + 1].text) : ls[i + 1].text[k] \in {" ", "\n"}}

\* C14: for the patch "@@ -1,2 +1,3 @@\n context\n+// New comment\n+\n context"
\* the collected candidates are exactly the line "// New comment", and every
\* comment for it is sent with position 2; for every patch, no candidate is a
\* blank added line and no candidate has blank text.
C14_ScenarioAndBlankLines ==
    /\ (lines = ScenarioPatch /\ pc \in {"get_content", "line", "comment", "review", "done"})
          => /\ docLines = <<[line |-> 2, codeLine |-> <<"// New comment">>]>>
             /\ calculatePositionInFile(lines, docLines[1].line) = 2
             /\ \A n \in 1..Len(reviewComments) : reviewComments[n].line = 2
    /\ \A d \in 1..Len(docLines) :
          /\ docLines[d].line \notin BlankAddedLines(lines)
          /\ \E k \in 1..Len(docLines[d].codeLine) :
                docLines[d].codeLine[k] \notin {" ", "\n"}

\* the scenario patch was collected and its only candidate got a comment
C14_Witness ==
    /\ lines = ScenarioPatch
    /\ BlankAddedLines(lines) = {3}
    /\ pc = "done"
    /\ Len(docLines) = 1
    /\ Len(reviewComments) = 1
    /\ reviewComments[1].line = 2
    /\ reviewComments[1].ok

(***************************************************************************)
(* C15                                                                     *)
(***************************************************************************)
\* the event is a pull_request.opened or pull_request.synchronize event
IsPullRequestEvent ==
    event.name \in {"pull_request.opened", "pull_request.synchronize"}

\* the calls of the handler that name a commit
CommitCalls ==
    {n \in 1..Len(handlerLog) :
        handlerLog[n].op \in {"getCommitDetails", "createDocumentationSuggestions"}}

\* C15: in a pull_request.opened or pull_request.synchronize event, commit
\* details are fetched at most once, every commit-details call and every
\* createDocumentationSuggestions call (whose file content, model calls and
\* comments are made for the commit it is given) names the last commit of the
\* list, and the running createDocumentationSuggestions works on that commit.
C15_OnlyLastCommit ==
    IsPullRequestEvent =>
       /\ Cardinality({n \in CommitCalls :
                          handlerLog[n].op = "getCommitDetails"}) <= 1
       /\ \A n \in CommitCalls :
             /\ commits # <<>>
             /\ handlerLog[n].sha = commits[Len(commits)].sha
       /\ hpc \in {"get_details", "file"} =>
             /\ commits # <<>>
             /\ commits[commitIdx].sha = commits[Len(commits)].sha

\* a pull request with two commits was handled: details were fetched for the
\* second commit only and a comment was published for one of its files
C15_Witness ==
    /\ IsPullRequestEvent
    /\ hpc = "returned"
    /\ Len(commits) = 2
    /\ \E n \in CommitCalls :
          /\ handlerLog[n].op = "getCommitDetails"
          /\ handlerLog[n].sha = commits[2].sha
    /\ \E n \in Runs : handlerLog[n].sha = commits[2].sha /\ handlerLog[n].ret = 1

(***************************************************************************)
(* C16                                                                     *)
(***************************************************************************)
\* the message has a "Co-authored-by:" trailer that names a bot
IsBotCoAuthored(message) ==
    \E k \in 1..Len(message) :
       /\ message[k] = "Co-authored-by:"
       /\ \E j \in (k + 1)..Len(message) : message[j] \in {"[bot]", "Bot"}

\* C16: in a pull_request.opened or pull_request.synchronize event whose last
\* commit has a message with a "Co-authored-by:" trailer naming a bot, the
\* handler fetches no commit details, never calls
\* createDocumentationSuggestions, and so makes no model call and publishes no
\* comment and no review.
C16_BotCoAuthoredCommitSkipped ==
    (/\ IsPullRequestEvent
     /\ commits # <<>>
     /\ IsBotCoAuthored(commits[Len(commits)].message))
    => /\ CommitCalls = {}
       /\ hpc \notin {"get_details", "file"}
       /\ pc = "idle"
       /\ modelCalls = <<>> /\ reviewComments = <<>> /\ reviews = <<>>

\* the handler returned right after the commit list, whose last commit was
\* co-authored by a bot while the one before it was not
C16_Witness ==
    /\ IsPullRequestEvent
    /\ hpc = "returned"
    /\ Len(commits) = 2
    /\ IsBotCoAuthored(commits[2].message)
    /\ ~IsBotCoAuthored(commits[1].message)
    /\ Len(handlerLog) = 1
    /\ handlerLog[1].op = "getCommitsInPR"

(***************************************************************************)
(* C17                                                                     *)
(***************************************************************************)
\* a createDocumentationSuggestions call is running
PipelineRunning == pc # "idle"

\* C17: in a pull_request event, createDocumentationSuggestions (which makes
\* the file-content, model and comment calls of a file) is called for the
\* files in the order of commitDetails.files, one call at a time: a call runs
\* only for a file with a non-empty patch and only after the calls for all
\* earlier such files have returned; a file without a non-empty patch gets no
\* call, and after the loop every file with one has had exactly one.
C17_FilesInOrderOneAtATime ==
    IsPullRequestEvent =>
       /\ \A n, m \in Runs :
             n < m => handlerLog[n].file < handlerLog[m].file
       /\ \A n \in Runs : handlerLog[n].file \in PatchedFiles
       /\ PipelineRunning =>
             /\ hpc = "file"
             /\ fileIdx \in PatchedFiles
             /\ lines = commitDetails.files[fileIdx].patch.lines
             /\ \A n \in Runs : handlerLog[n].file < fileIdx
             /\ \A j \in PatchedFiles :
                   j < fileIdx => \E n \in Runs : handlerLog[n].file = j
       /\ ~PipelineRunning =>
             modelCalls = <<>> /\ reviewComments = <<>> /\ reviews = <<>>
       /\ (FilesDone /\ commitDetails.ok) =>
             PatchedFiles = {handlerLog[n].file : n \in Runs}

\* the call for the first file has returned with a comment and the call for
\* the second file is waiting for its fallback review
C17_Witness ==
    /\ IsPullRequestEvent
    /\ hpc = "file"
    /\ fileIdx = 2
    /\ pc = "review"
    /\ PatchedFiles = {1, 2}
    /\ \E n \in Runs : handlerLog[n].file = 1 /\ handlerLog[n].ret = 1
    /\ Cardinality(Runs) = 1

(***************************************************************************)
(* C18                                                                     *)
(***************************************************************************)
\* C18 as stated: for pull_request.opened, pull_request.synchronize and push
\* events, no exception raised in the handler ever leaves it.
C18_AsStated == hpc # "escaped"

(***************************************************************************)
(* C19                                                                     *)
(***************************************************************************)
\* the response has a "reason:" marker and a "suggestion:" marker
HasBothMarkers(t) ==
    /\ \E k \in 1..Len(t) : t[k] = "reason:"
    /\ \E k \in 1..Len(t) : t[k] = "suggestion:"

\* where the word w first occurs in s
FirstIndexOf(s, w) ==
    CHOOSE k \in 1..Len(s) : s[k] = w /\ \A j \in 1..(k - 1) : s[j] # w

\* s without its first "reason:" label and without surrounding blanks
WithoutLabel(s) ==
    LET k == IF \E j \in 1..Len(s) : s[j] = "reason:"
             THEN FirstIndexOf(s, "reason:") ELSE 0
    IN  IF k = 0 THEN Trim(s)
        ELSE Trim(SubSeq(s, 1, k - 1) \o SubSeq(s, k + 1, Len(s)))

\* a suggestion block with the given content
SuggestionBlock(content) ==
    <<"<fence>suggestion", "\n">> \o content \o <<"\n", "<fence>">>

\* C19 as stated: the body of every comment about to be published is, when
\* the response has both markers (wherever they are), the text before
\* "suggestion:" without its "reason:" label as rationale followed by a
\* suggestion block holding the text after "suggestion:", and otherwise a
\* suggestion block holding the whole response with no rationale.
C19_AsStated ==
    pc \in {"comment", "review"} =>
       IF HasBothMarkers(text)
       THEN LET k == FirstIndexOf(text, "suggestion:")
            IN  comment.body =
                   <<"**Reason for improvement:** ">>
                      \o WithoutLabel(SubSeq(text, 1, k - 1)) \o <<"\n">>
                      \o SuggestionBlock(Trim(SubSeq(text, k + 1, Len(text))))
       ELSE comment.body = SuggestionBlock(text)

(***************************************************************************)
(* C20                                                                     *)
(***************************************************************************)
\* C20 as stated: a comment is about to be published only for a response
\* that has both markers.
C20_AsStated == pc \in {"comment", "review"} => HasBothMarkers(text)

\* the response t has the text of the original line, blanks aside
IsNoOp(t, codeLine) == Trim(t) = Trim(codeLine)

\* responses that lack one marker or both
UnmarkedResponses(codeLine) ==
    {<<>>, <<" ">>, <<"y">>, <<" ">> \o codeLine, <<"reason:", "r">>,
     <<"suggestion:", "y">>, <<"reason:", " ">> \o codeLine}

\* C20 (amended): a non-empty response without both markers is not rejected:
\* unless it repeats the original line it becomes a comment whose body is a
\* suggestion block holding the whole response; it is dropped only when it
\* is empty or repeats the original line, and a comment published without
\* both markers is never such a repetition.
C20_UnmarkedResponsePublished ==
    /\ (pc = "line" /\ ~SkipsLine(docLines[cur].codeLine)) =>
          \A t \in Responses(docLines[cur].codeLine)
                     \cup UnmarkedResponses(docLines[cur].codeLine) :
             ~HasBothMarkers(t) =>
                LET c == ResponseToComment(lines, docLines[cur], t)
                IN  IF t = <<>> \/ IsNoOp(t, docLines[cur].codeLine)
                    THEN c = NoComment
                    ELSE c.body = SuggestionBlock(t)
    /\ (pc \in {"comment", "review"} /\ ~HasBothMarkers(text)) =>
          /\ comment.body = SuggestionBlock(text)
          /\ ~IsNoOp(text, docLines[cur].codeLine)

\* a response without markers was accepted as a comment and counted
C20_Witness ==
    /\ pc = "done"
    /\ Len(docLines) = 1
    /\ Len(reviewComments) = 1
    /\ reviewComments[1].body = SuggestionBlock(<<"y">>)
    /\ reviewComments[1].ok
    /\ ret = 1

(***************************************************************************)
(* C21                                                                     *)
(***************************************************************************)
\* C21: generateText is called at most once for every candidate, never for a
\* candidate that is skipped, and exactly once for every other candidate by
\* the time processIndividualLine has returned for it; so a file never has
\* more model calls than candidates.
C21_OneModelCallPerCandidate ==
    /\ \A n \in 1..Len(modelCalls) : modelCalls[n].doc \in 1..Len(docLines)
    /\ \A d \in 1..Len(docLines) :
          /\ Cardinality(CallsFor(modelCalls, d)) <= 1
          /\ IsBotMetadata(docLines[d].codeLine) => CallsFor(modelCalls, d) = {}
          /\ (Settled(d) /\ ~IsBotMetadata(docLines[d].codeLine))
                => Cardinality(CallsFor(modelCalls, d)) = 1
    /\ Len(modelCalls) <= Len(docLines)

\* three candidates were processed: the call for the first failed, the
\* second was skipped, the third got an answer; two calls were made in all
C21_Witness ==
    /\ pc = "done"
    /\ Len(docLines) = 3
    /\ IsBotMetadata(docLines[2].codeLine)
    /\ Len(modelCalls) = 2
    /\ modelCalls[1].doc = 1 /\ ~modelCalls[1].ok
    /\ modelCalls[2].doc = 3 /\ modelCalls[2].ok

(***************************************************************************)
(* C22                                                                     *)
(***************************************************************************)
\* the calls of the handler log with operation op, in order
CallsOf(op) == SelectSeq(handlerLog, LAMBDA c : c.op = op)

\* the position in the handler log of the last repos.getCommit call
LastGetCommit ==
    LET S == {n \in 1..Len(handlerLog) : handlerLog[n].op = "getCommit"}
    IN  IF S = {} THEN 0 ELSE CHOOSE n \in S : \A m \in S : m <= n

\* the files of the commit that are not removed, up to file k
KeptFiles(k) ==
    {j \in 1..Len(commitDetails.files) :
        j <= k /\ commitDetails.files[j].status # "removed"}

\* the calls made by a push handler so far are those of the commits in
\* delivery order: one getCommit per commit and, right after it, one
\* getFileContent for every file of that commit that is not removed, in order
PushCallsInOrder ==
    LET fetched == CallsOf("getCommit")
        k       == IF hpc = "push_get_commit" THEN commitIdx - 1 ELSE commitIdx
        content == SubSeq(handlerLog, LastGetCommit + 1, Len(handlerLog))
        upTo    == IF hpc = "push_get_content" THEN fileIdx - 1 ELSE fileIdx
    IN  /\ Len(fetched) = k
        /\ \A n \in 1..k : fetched[n].sha = event.payload.commits[n].sha
        /\ \A n \in 1..Len(handlerLog) :
              handlerLog[n].op \in {"getCommit", "getFileContent"}
        /\ LastGetCommit > 0 =>
              /\ \A n \in 1..Len(content) :
                    /\ content[n].op = "getFileContent"
                    /\ content[n].sha = handlerLog[LastGetCommit].sha
                    /\ content[n].file \in KeptFiles(upTo)
                    /\ \A m \in 1..(n - 1) : content[m].file < content[n].file
              /\ Len(content) = Cardinality(KeptFiles(upTo))
              /\ hpc # "push_get_content" => fileIdx = Len(commitDetails.files)

OwnCommit == PairCommits(event.name)[Len(PairCommits(event.name))]

\* the patch lines of the file of that commit
OwnLines == PairFile(event.name).patch.lines

\* the calls the running invocation has made to the backend and to the REST
\* collaborator for the file in progress are those it makes when it runs
\* alone with the same answers: prompt, position and body come from its own
\* patch, its own file content and its own commit
OwnPipelineCalls ==
    /\ lines = OwnLines
    /\ sarcasmMode = StringValue(OwnCommit.email)
    /\ pc # "start" => docLines = CollectDocLines(OwnLines).docs
    /\ \A n \in 1..Len(modelCalls) :
          LET c == modelCalls[n]
          IN  /\ c.doc \in 1..Len(docLines)
              /\ c = ModelPrompt(docLines[c.doc].codeLine, fileContent,
                                 StringValue(OwnCommit.email))
                         @@ [doc |-> c.doc, ok |-> c.ok]
    /\ \A n \in 1..Len(reviewComments) :
          LET c == reviewComments[n]
          IN  /\ c.doc \in 1..Len(docLines)
              /\ \E t \in Responses(docLines[c.doc].codeLine) :
                    ResponseToComment(OwnLines, docLines[c.doc], t)
                        = [body |-> c.body, line |-> c.line]
    /\ \A n \in 1..Len(reviews) :
          \E m \in 1..Len(reviewComments) :
             /\ reviewComments[m].doc = reviews[n].doc
             /\ ~reviewComments[m].ok
             /\ reviews[n].body =
                   <<"Documentation improvement for ", "path", ":", "\n", "\n">>
                       \o reviewComments[m].body

\* C23: when two handler invocations are interleaved at their awaits, every
\* call of the running one carries its own arguments (commit id, file, prompt,
\* position, body), as in a run of that invocation alone with the same
\* answers, and the invocation that waits is a different one
C23_InterleavedCallsUseOwnArguments ==
    parked.paired =>
       /\ parked.locals.event.name # event.name
       /\ commits \in {<<>>, PairCommits(event.name)}
       /\ commitIdx \in {0, Len(PairCommits(event.name))}
       /\ \A n \in 1..Len(handlerLog) :
             LET c == handlerLog[n]
             IN  /\ c.op \in {"getCommitsInPR", "getCommitDetails",
                              "createDocumentationSuggestions", "compareCommits"}
                 /\ c.op \in {"getCommitDetails", "createDocumentationSuggestions"}
                       => c.sha = OwnCommit.sha
                 /\ c.op = "createDocumentationSuggestions" => c.file = 1
       /\ pc # "idle" => OwnPipelineCalls

\* both invocations are in the middle of a file: the running one has asked
\* the backend with the sarcasm instruction, the waiting one without it
C23_Witness ==
    /\ parked.paired
    /\ event.name = "pull_request.opened"
    /\ pc = "comment"
    /\ Len(modelCalls) = 1
    /\ Includes(modelCalls[1].prompt, "IMPORTANT: USE SARCASM MODE")
    /\ parked.locals.pc = "review"
    /\ Len(parked.locals.modelCalls) = 1
    /\ ~Includes(parked.locals.modelCalls[1].prompt, "IMPORTANT: USE SARCASM MODE")
    /\ parked.locals.handlerLog[2].sha = 2
    /\ handlerLog[2].sha = 1

(***************************************************************************)
(* C24                                                                     *)
(***************************************************************************)
\* line i (counted from 0) starts with "+", not with "+++", and has
\* non-whitespace content after the "+"
IsCandidateLine(ls, i) ==
    /\ StartsWith(ls[i + 1].text, <<"+">>)
    /\ ~StartsWith(ls[i + 1].text, <<"+", "+", "+">>)
    /\ Trim(Substring(ls[i + 1].text, 1)) # <<>>

\* the candidate lines of the first n lines, in patch order
RECURSIVE CandidateLines(_, _)
CandidateLines(ls, n) ==
    IF n = 0 THEN <<>>
    ELSE IF IsCandidateLine(ls, n - 1)
    THEN Append(CandidateLines(ls, n - 1),
                [line |-> n - 1, codeLine |-> Substring(ls[n].text, 1)])
    ELSE CandidateLines(ls, n - 1)

\* C24: once the candidates are collected, the candidate list is, in patch
\* order, exactly the lines that start with "+", do not start with "+++" and
\* have non-whitespace content after the "+"; the removed lines before them
\* and the deleted-position set make no difference
C24_CandidatesIgnoreDeletedSet ==
    pc # "start" => docLines = CandidateLines(lines, Len(lines))

\* an added line at the position of a removed line and a second added line
\* after it are both candidates
C24_Witness ==
    /\ pc = "done"
    /\ Len(lines) = 3
    /\ IsRemovedLine(lines[1])
    /\ Len(docLines) = 2
    /\ docLines[1].line = 1
    /\ docLines[2].line = 2
    /\ calculatePositionInFile(lines, 0) = calculatePositionInFile(lines, 1)

(***************************************************************************)
(* C25                                                                     *)
(***************************************************************************)
\* C25 as stated: for an added line the inline loop of the earlier revision
\* and calculatePositionInFile agree when a matching hunk header with start
\* at least 1 precedes the line, and they differ only when no matching hunk
\* header precedes it.
C25_AsStated ==
    pc = "pos_inline" =>
       LET h == LastHeaderBefore(lines, lineIndex)
       IN  /\ (h # None /\ lines[h + 1].start >= 1) => comment.line = position
           /\ comment.line # position => h = None

\* C25 (amended): for an added line the two revisions agree exactly when a
\* matching hunk header precedes the line and either its new-file start is at
\* least 1 or a counted line lies between the header and the line; under a
\* header with start 0 the first line gets 0 from the inline loop and the
\* clamped 1 from calculatePositionInFile, with no header it gets k + 2 and
\* max(k, 1) for k counted lines before it.
C25_RevisionsAgreeUnderHeader ==
    pc = "pos_inline" =>
       LET h == LastHeaderBefore(lines, lineIndex)
           k == IF h = None THEN Counted(lines, 0, lineIndex - 1)
                ELSE Counted(lines, h + 1, lineIndex - 1)
       IN  /\ (comment.line = position)
                 <=> (h # None /\ (lines[h + 1].start >= 1 \/ k >= 1))
           /\ h = None => comment.line = k + 2 /\ position = Max(k, 1)
           /\ h # None => /\ comment.line = lines[h + 1].start + k
                          /\ position = Max(lines[h + 1].start + k, 1)

\* both revisions computed c + 1 for the line after a context line under a
\* header with start c >= 1, a "@@ " line without counts in between
C25_Witness ==
    /\ pc = "pos_inline"
    /\ lineIndex = 3
    /\ IsHunkHeaderLine(lines[1])
    /\ lines[1].start >= 1
    /\ lines[2] = ContextLine(<<"x">>)
    /\ lines[3] = ShortHeader
    /\ comment.line = lines[1].start + 1
    /\ position = comment.line

(***************************************************************************)
(* C26                                                                     *)
(***************************************************************************)
\* candidates a and b, a before b, lie under the same hunk header
SameHunk(a, b) ==
    /\ a < b
    /\ LastHeaderBefore(lines, docLines[a].line) # None
    /\ LastHeaderBefore(lines, docLines[a].line)
          = LastHeaderBefore(lines, docLines[b].line)

\* the position of candidate d
PositionOf(d) == calculatePositionInFile(lines, docLines[d].line)

\* C26 as stated: of two candidates under the same hunk header (looked at
\* when the candidates have just been collected) the earlier one has the
\* strictly smaller position, and the positioned comments of one
\* hunk are submitted with strictly increasing positions.
C26_AsStated ==
    pc # "start" =>
       /\ pc = "get_content" =>
             \A a, b \in 1..Len(docLines) :
                SameHunk(a, b) => PositionOf(a) < PositionOf(b)
       /\ \A n, m \in 1..Len(reviewComments) :
             (n < m /\ SameHunk(reviewComments[n].doc, reviewComments[m].doc))
                => reviewComments[n].line < reviewComments[m].line

\* the position of candidate d is the clamped one: its header starts at 0 and
\* no counted line lies between the header and the candidate
Clamped(d) ==
    LET h == LastHeaderBefore(lines, docLines[d].line)
    IN  /\ lines[h + 1].start = 0
        /\ Counted(lines, h + 1, docLines[d].line - 1) = 0

\* C26 (amended): of two candidates under the same hunk header (looked at
\* when the candidates have just been collected) the earlier one never has
\* the larger position, and it has the strictly smaller one
\* unless its own position is the clamped 1 of a header with start 0; then
\* the next counted line of the hunk gets 1 as well.  The positioned comments
\* of one hunk are submitted in that order of positions.
C26_PositionsIncreaseWithinHunk ==
    pc # "start" =>
       /\ pc = "get_content" =>
             \A a, b \in 1..Len(docLines) :
                SameHunk(a, b) =>
                   /\ PositionOf(a) <= PositionOf(b)
                   /\ ~Clamped(a) => PositionOf(a) < PositionOf(b)
                   /\ Clamped(a) =>
                         /\ PositionOf(a) = 1
                         /\ PositionOf(b) =
                               Counted(lines,
                                       LastHeaderBefore(lines, docLines[b].line) + 1,
                                       docLines[b].line - 1)
       /\ \A n, m \in 1..Len(reviewComments) :
             (n < m /\ SameHunk(reviewComments[n].doc, reviewComments[m].doc))
                => /\ reviewComments[n].line = PositionOf(reviewComments[n].doc)
                   /\ reviewComments[m].line = PositionOf(reviewComments[m].doc)
                   /\ reviewComments[n].line <= reviewComments[m].line
                   /\ ~Clamped(reviewComments[n].doc)
                         => reviewComments[n].line < reviewComments[m].line

\* two comments of one hunk with a positive start were submitted at
\* consecutive positions
C26_Witness ==
    /\ pc = "done"
    /\ Len(reviewComments) = 2
    /\ SameHunk(reviewComments[1].doc, reviewComments[2].doc)
    /\ ~Clamped(reviewComments[1].doc)
    /\ reviewComments[2].line = reviewComments[1].line + 1

(***************************************************************************)
(* C27                                                                     *)
(***************************************************************************)
\* the candidates for which createReviewComment was called
Attempted == {d \in 1..Len(docLines) : CallsFor(reviewComments, d) # {}}

\* the candidates with a call that the REST collaborator accepted
Accepted ==
    {d \in 1..Len(docLines) :
        \/ \E n \in CallsFor(reviewComments, d) : reviewComments[n].ok
        \/ \E n \in CallsFor(reviews, d) : reviews[n].ok}

\* C27: the count that createDocumentationSuggestions returns is the number
\* of candidates for which a publish was attempted, whatever the outcome of
\* the positioned call and of the fallback; it lies between 0 and the number
\* of candidates and is never below the number of accepted publishes.
C27_CountIsPublishAttempts ==
    /\ pc = "done" =>
          /\ ret = Cardinality(Attempted)
          /\ 0 <= ret /\ ret <= Len(docLines)
          /\ Cardinality(Accepted) <= ret
    /\ pc \in {"line", "comment", "review"} =>
          successCount = Cardinality({d \in Attempted : Settled(d)})

\* two candidates were counted although the REST collaborator accepted
\* neither a positioned comment nor a review
C27_Witness ==
    /\ pc = "done"
    /\ ret = 2
    /\ Accepted = {}
    /\ Len(reviews) = 2

(***************************************************************************)
(* C28                                                                     *)
(***************************************************************************)
\* the message has the co-author marker and, anywhere, the word bot or Bot
HasMarkerAndBot(message) ==
    /\ \E k \in 1..Len(message) : message[k] = "Co-authored-by:"
    /\ \E k \in 1..Len(message) : message[k] \in {"bot", "[bot]", "bot@", "Bot"}

\* the operations of the calls the handler has made, in order
Ops == [n \in 1..Len(handlerLog) |-> handlerLog[n].op]

\* C28: once the commit list of a pull_request event has arrived, the handler
\* skips the last commit exactly when its message contains "Co-authored-by:"
\* and, anywhere, "bot" or "Bot"; on a skip it returns at once with no call
\* after getCommitsInPR, the comparison included; a commit that is not
\* skipped has its details fetched, and with an empty commit list the handler
\* still makes the comparison call before it returns.
C28_SkipTestAndComparison ==
    (IsPullRequestEvent /\ handlerLog # <<>>) =>
       LET skip == commits # <<>> /\ HasMarkerAndBot(commits[Len(commits)].message)
       IN  /\ skip => hpc = "returned" /\ Ops = <<"getCommitsInPR">>
           /\ (commits # <<>> /\ ~skip) =>
                 \/ hpc = "get_details"
                 \/ Len(Ops) >= 2 /\ Ops[2] = "getCommitDetails"
           /\ commits = <<>> =>
                 \/ hpc = "compare" /\ Ops = <<"getCommitsInPR">>
                 \/ hpc = "returned" /\ Ops = <<"getCommitsInPR", "compareCommits">>

\* the handler returned after the commit list alone: the last message has
\* the marker with a human co-author and the word bot before the trailer
C28_Witness ==
    /\ IsPullRequestEvent
    /\ hpc = "returned"
    /\ Ops = <<"getCommitsInPR">>
    /\ commits # <<>>
    /\ commits[Len(commits)].message =
          <<"fix", " ", "[bot]", "\n", "\n", "Co-authored-by:", " ", "x">>

(***************************************************************************)
(* C29                                                                     *)
(***************************************************************************)
\* the patch has no added line with non-blank content
NoCandidateLine == \A i \in 0..(Len(lines) - 1) : ~IsCandidateLine(lines, i)

\* C29: for a patch without a candidate line createDocumentationSuggestions
\* returns 0 and calls no collaborator: no file content is fetched, the
\* backend is not asked, no comment and no review is created; for a patch
\* with candidates the file content is fetched once, before the first
\* candidate is processed, however many candidates there are.
C29_NoCandidateNoCalls ==
    /\ pc = "start" => contentFetches = 0
    /\ (pc # "start" /\ NoCandidateLine) =>
          /\ pc = "done" /\ ret = 0
          /\ contentFetches = 0
          /\ modelCalls = <<>> /\ reviewComments = <<>> /\ reviews = <<>>
    /\ (pc # "start" /\ ~NoCandidateLine) =>
          /\ pc = "get_content" =>
                contentFetches = 0 /\ modelCalls = <<>> /\ reviewComments = <<>>
          /\ pc # "get_content" => contentFetches = 1

\* three candidates were processed after a single fetch of the file content
C29_Witness ==
    /\ pc = "done"
    /\ Len(docLines) = 3
    /\ Len(modelCalls) = 3
    /\ contentFetches = 1
    /\ fileContent # Null

(***************************************************************************)
(* C30                                                                     *)
(***************************************************************************)
\* the author e-mail of the last commit of the pull request
LastAuthorEmail == commits[Len(commits)].email

\* C30: while createDocumentationSuggestions runs for a pull_request event,
\* its tone flag is the author e-mail of the last commit, a string, never the
\* boolean default SARCASM_MODE; every prompt sent to the backend carries the
\* sarcasm instruction exactly when that e-mail is not empty, and the system
\* text carries it exactly when, in addition, no file content is available.
C30_ToneFlagIsAuthorEmail ==
    (IsPullRequestEvent /\ pc # "idle") =>
       /\ sarcasmMode = StringValue(LastAuthorEmail)
       /\ sarcasmMode # BoolValue(SARCASM_MODE)
       /\ \A n \in 1..Len(modelCalls) :
             /\ Includes(modelCalls[n].prompt, "IMPORTANT: USE SARCASM MODE")
                   <=> LastAuthorEmail # <<>>
             /\ Includes(modelCalls[n].system, "ENABLE SARCASM MODE")
                   <=> (LastAuthorEmail # <<>> /\ fileContent = Null)

\* the backend was asked without the sarcasm instruction for a commit whose
\* author has no e-mail, although SARCASM_MODE is true
C30_Witness ==
    /\ IsPullRequestEvent
    /\ pc = "comment"
    /\ SARCASM_MODE
    /\ LastAuthorEmail = <<>>
    /\ Len(modelCalls) = 1
    /\ ~Includes(modelCalls[1].prompt, "IMPORTANT: USE SARCASM MODE")
    /\ ~Includes(modelCalls[1].system, "ENABLE SARCASM MODE")
    /\ fileContent = Null

====
